---- MODULE Spec2Model ----
(***************************************************************************)
(* Model of the 297-slide report generator: the DataProcessor (Aggregator), *)
(* the MainOrchestrator's slide structure table (SlidePlan) and the linear  *)
(* generation pass that joins them.                                         *)
(***************************************************************************)
EXTENDS Integers, Sequences, FiniteSets, TLC

(***************************************************************************)
(* JavaScript values.  A number is a fraction n/d in lowest terms with      *)
(* d > 0; d = 0 encodes the non-finite numbers: 0/0 is NaN, 1/0 is          *)
(* Infinity and -1/0 is -Infinity.  A missing property reads as undefined.  *)
(***************************************************************************)
Undefined == [k |-> "undefined", n |-> 0, d |-> 1]

Null == [k |-> "null", n |-> 0, d |-> 1]

NaN == [k |-> "number", n |-> 0, d |-> 0]

Infinity == [k |-> "number", n |-> 1, d |-> 0]

NegInfinity == [k |-> "number", n |-> -1, d |-> 0]

Abs(i) == IF i < 0 THEN -i ELSE i

Sign(i) == IF i < 0 THEN -1 ELSE IF i = 0 THEN 0 ELSE 1

RECURSIVE Gcd(_, _)
Gcd(a, b) == IF b = 0 THEN a ELSE Gcd(b, a % b)

Rat(n, d) ==
  LET g == Gcd(Abs(n), Abs(d))
  IN  [k |-> "number", n |-> Sign(d) * (n \div g), d |-> Abs(d) \div g]

Num(i) == [k |-> "number", n |-> i, d |-> 1]

IsNaN(x) == x.k = "number" /\ x.d = 0 /\ x.n = 0

IsInfinite(x) == x.k = "number" /\ x.d = 0 /\ x.n # 0

IsFinite(x) == x.k = "number" /\ x.d # 0

\* ToNumber: undefined converts to NaN, null to 0
ToNumber(x) ==
  IF x.k = "undefined" THEN NaN
  ELSE IF x.k = "null" THEN [k |-> "number", n |-> 0, d |-> 1]
  ELSE x

\* ToBoolean: undefined, NaN and 0 are falsy
Truthy(x) == x.k = "number" /\ x.n # 0

\* the expression  x || y
OrElse(x, y) == IF Truthy(x) THEN x ELSE y

\* the expression  a / b  on IEEE numbers (the sign of zero is not tracked)
JsDiv(a0, b0) ==
  LET a == ToNumber(a0)
      b == ToNumber(b0)
  IN  IF IsNaN(a) \/ IsNaN(b) THEN NaN
      ELSE IF IsInfinite(a)
        THEN IF IsInfinite(b) THEN NaN
             ELSE IF b.n < 0 THEN [a EXCEPT !.n = -a.n] ELSE a
      ELSE IF IsInfinite(b) THEN Num(0)
      ELSE IF b.n = 0
        THEN IF a.n = 0 THEN NaN
             ELSE IF a.n > 0 THEN Infinity ELSE NegInfinity
      ELSE Rat(a.n * b.d, a.d * b.n)

\* the expression  a * b
JsMul(a0, b0) ==
  LET a == ToNumber(a0)
      b == ToNumber(b0)
  IN  IF IsNaN(a) \/ IsNaN(b) THEN NaN
      ELSE IF IsInfinite(a) \/ IsInfinite(b)
        THEN IF a.n = 0 \/ b.n = 0 THEN NaN
             ELSE IF Sign(a.n) * Sign(b.n) > 0 THEN Infinity ELSE NegInfinity
      ELSE LET g1 == Gcd(Abs(a.n), b.d)
               g2 == Gcd(Abs(b.n), a.d)
           IN  Rat((a.n \div g1) * (b.n \div g2), (a.d \div g2) * (b.d \div g1))

\* the expression  a + b
JsAdd(a0, b0) ==
  LET a == ToNumber(a0)
      b == ToNumber(b0)
  IN  IF IsNaN(a) \/ IsNaN(b) THEN NaN
      ELSE IF IsInfinite(a)
        THEN IF IsInfinite(b) /\ a.n # b.n THEN NaN ELSE a
      ELSE IF IsInfinite(b) THEN b
      ELSE Rat(a.n * b.d + b.n * a.d, a.d * b.d)

\* Math.floor on a finite number
Floor(x) == x.n \div x.d

(***************************************************************************)
(* Number formatting.                                                       *)
(***************************************************************************)
Digit(i) == SubSeq("0123456789", i + 1, i + 1)

RECURSIVE Digits(_)
Digits(i) == IF i < 10 THEN Digit(i) ELSE Digits(i \div 10) \o Digit(i % 10)

\* en-US grouping of a non-negative integer: 1234567 -> "1,234,567"
RECURSIVE Grouped(_)
Grouped(i) ==
  IF i < 1000 THEN Digits(i)
  ELSE Grouped(i \div 1000) \o "," \o Digit((i % 1000) \div 100)
         \o Digit((i % 100) \div 10) \o Digit(i % 10)

\* a non-negative finite number scaled by 10^p and rounded half away from zero
RoundScaled(x, scale) ==
  (x.n \div x.d) * scale + (2 * (x.n % x.d) * scale + x.d) \div (2 * x.d)

AbsNum(x) == [x EXCEPT !.n = Abs(x.n)]

\* fraction part of Intl's default format: at most 3 digits, no trailing zeros
FractionText(m) ==
  IF m = 0 THEN ""
  ELSE IF m % 100 = 0 THEN "." \o Digit(m \div 100)
  ELSE IF m % 10 = 0 THEN "." \o Digit(m \div 100) \o Digit((m % 100) \div 10)
  ELSE "." \o Digit(m \div 100) \o Digit((m % 100) \div 10) \o Digit(m % 10)

\* formatCurrency cutting the cents off (Math.floor) where Intl rounds
formatCurrency_truncating(value) ==
  LET v == OrElse(value, Num(0))
  IN  IF IsInfinite(v) THEN (IF v.n < 0 THEN "-$Infinity" ELSE "$Infinity")
      ELSE LET r == AbsNum(v).n \div AbsNum(v).d
           IN  (IF v.n < 0 /\ r # 0 THEN "-$" ELSE "$") \o Grouped(r)

\* new Intl.NumberFormat('en-US', {style:'currency', currency:'USD',
\*   maximumFractionDigits: 0}).format(value || 0)
\* (the infinity sign Intl prints is spelled out here)
formatCurrency(value) ==
  LET v == OrElse(value, Num(0))
  IN  IF IsInfinite(v) THEN (IF v.n < 0 THEN "-$Infinity" ELSE "$Infinity")
      ELSE LET r == RoundScaled(AbsNum(v), 1)
           IN  (IF v.n < 0 /\ r # 0 THEN "-$" ELSE "$") \o Grouped(r)

\* new Intl.NumberFormat('en-US').format(value || 0)
formatNumber(value) ==
  LET v == OrElse(value, Num(0))
  IN  IF IsInfinite(v) THEN (IF v.n < 0 THEN "-Infinity" ELSE "Infinity")
      ELSE LET r == RoundScaled(AbsNum(v), 1000)
           IN  (IF v.n < 0 /\ r # 0 THEN "-" ELSE "")
                 \o Grouped(r \div 1000) \o FractionText(r % 1000)

\* formatPercentage converting with Number(value) where the code has value || 0
formatPercentage_unguarded(value) ==
  LET v == ToNumber(value)
  IN  IF IsNaN(v) THEN "NaN%"
      ELSE IF IsInfinite(v) THEN (IF v.n < 0 THEN "-Infinity%" ELSE "Infinity%")
      ELSE LET r == RoundScaled(AbsNum(v), 10)
           IN  (IF v.n < 0 THEN "-" ELSE "")
                 \o Digits(r \div 10) \o "." \o Digit(r % 10) \o "%"

\* `${(value || 0).toFixed(1)}%`
formatPercentage(value) ==
  LET v == OrElse(value, Num(0))
  IN  IF IsInfinite(v) THEN (IF v.n < 0 THEN "-Infinity%" ELSE "Infinity%")
      ELSE LET r == RoundScaled(AbsNum(v), 10)
           IN  (IF v.n < 0 THEN "-" ELSE "")
                 \o Digits(r \div 10) \o "." \o Digit(r % 10) \o "%"

(***************************************************************************)
(* Input data (RawInput).  An array property is either present or missing.  *)
(***************************************************************************)
Arr(s) == [k |-> "array", v |-> s]

\* the expression  list || []
OrEmpty(list) == IF list.k = "array" THEN list.v ELSE <<>>

\* longest ranked list the data-processing inputs carry
MaxList == 2

\* number of Math.random() outcomes distinguished, as multiples of 1/RandLevels
RandLevels == 2

\* period of the modelled Math.random() stream
RandPeriod == 3

Entity(name, country, value) ==
  [name |-> name, country |-> country, value |-> Num(value)]

Country(country, value, share, shipments) ==
  [country |-> country, value |-> Num(value), share |-> Rat(share, 10),
   shipments |-> Num(shipments)]

\* ranked lists are supplied sorted by descending value
SupplierCatalog ==
  << Entity("Bristol-Myers Squibb", "USA", 245), Entity("Pfizer Inc", "USA", 187),
     Entity("Cipla Ltd", "India", 156), Entity("Teva Pharmaceutical", "Israel", 132),
     Entity("Sun Pharmaceutical", "India", 118), Entity("Fresenius Kabi", "Germany", 98),
     Entity("Mylan Pharmaceuticals", "USA", 87), Entity("Dr. Reddy's Laboratories", "India", 76),
     Entity("Hospira", "USA", 65), Entity("Sanofi", "France", 54),
     Entity("Novartis", "Switzerland", 48), Entity("Roche", "Switzerland", 42) >>

BuyerCatalog ==
  << Entity("Memorial Sloan Kettering", "USA", 187), Entity("Mayo Clinic", "USA", 165),
     Entity("NHS England", "UK", 143), Entity("MD Anderson Cancer Center", "USA", 132),
     Entity("Institut Gustave Roussy", "France", 98), Entity("University Health Network", "Canada", 87),
     Entity("Apollo Hospitals", "India", 76), Entity("National Cancer Center Japan", "Japan", 65),
     Entity("Peter MacCallum Cancer Centre", "Australia", 54), Entity("European Medicines Agency", "Netherlands", 48),
     Entity("Kaiser Permanente", "USA", 42), Entity("Cleveland Clinic", "USA", 38) >>

ImportingCatalog ==
  << Country("United States", 325, 261, 5872), Country("Germany", 187, 150, 3245),
     Country("United Kingdom", 156, 125, 2876), Country("France", 132, 106, 2543),
     Country("Japan", 118, 95, 2187), Country("Canada", 98, 79, 1876),
     Country("Australia", 87, 70, 1654), Country("Italy", 76, 61, 1432),
     Country("Spain", 65, 52, 1234), Country("Netherlands", 54, 43, 1098),
     Country("Belgium", 41, 33, 800), Country("Sweden", 30, 24, 600) >>

ExportingCatalog ==
  << Country("India", 365, 293, 6543), Country("United States", 287, 230, 5234),
     Country("Israel", 176, 141, 3187), Country("China", 142, 114, 2654),
     Country("Germany", 98, 79, 1876), Country("France", 87, 70, 1654),
     Country("Italy", 56, 45, 1098), Country("Switzerland", 34, 27, 876),
     Country("Belgium", 28, 22, 654), Country("Netherlands", 22, 18, 543),
     Country("United Kingdom", 18, 14, 432), Country("Spain", 15, 12, 321) >>

\* a list input: missing, or the first len entries of a catalog, the values
\* multiplied by scale (scale 0 gives entities that traded nothing)
ListInput(catalog, len, scale) ==
  IF len < 0 THEN Undefined
  ELSE Arr([i \in 1..len |->
              [catalog[i] EXCEPT !.value = Num(catalog[i].value.n * scale)]])

ProductData(tv, tr, li, le, ls, lb, scale) ==
  [name |-> "Paclitaxel", hsCode |-> "2932999090", avgPrice |-> Num(100),
   totalRecords |-> tr, totalValue |-> tv,
   importingCountries |-> ListInput(ImportingCatalog, li, 1),
   exportingCountries |-> ListInput(ExportingCatalog, le, 1),
   topSuppliers |-> ListInput(SupplierCatalog, ls, scale),
   topBuyers |-> ListInput(BuyerCatalog, lb, scale)]

(***************************************************************************)
(* DataProcessor                                                            *)
(***************************************************************************)
processProductInfo(data) ==
  [name |-> data.name, hsCode |-> data.hsCode,
   averagePrice |-> formatCurrency(OrElse(data.avgPrice, Num(0)))]

\* processMarketData dividing by totalRecords as it is
processMarketData_unguarded(data) ==
  [totalRecords |-> formatNumber(OrElse(data.totalRecords, Num(0))),
   totalValue |-> formatCurrency(OrElse(data.totalValue, Num(0))),
   avgPrice |-> formatCurrency(OrElse(data.avgPrice, Num(0))),
   avgTransactionValue |->
     formatCurrency(JsDiv(OrElse(data.totalValue, Num(0)), data.totalRecords))]

processMarketData(data) ==
  [totalRecords |-> formatNumber(OrElse(data.totalRecords, Num(0))),
   totalValue |-> formatCurrency(OrElse(data.totalValue, Num(0))),
   avgPrice |-> formatCurrency(OrElse(data.avgPrice, Num(0))),
   avgTransactionValue |->
     formatCurrency(JsDiv(OrElse(data.totalValue, Num(0)),
                          OrElse(data.totalRecords, Num(1))))]

\* processCountries taking the index of map as the rank
processCountries_zeroBased(countries) ==
  [index \in 1..Len(countries) |->
     [rank |-> index - 1,
      country |-> countries[index].country,
      value |-> formatCurrency(countries[index].value),
      share |-> formatPercentage(countries[index].share),
      rawValue |-> countries[index].value,
      rawShare |-> countries[index].share]]

processCountries(countries) ==
  [index \in 1..Len(countries) |->
     [rank |-> (index - 1) + 1,
      country |-> countries[index].country,
      value |-> formatCurrency(countries[index].value),
      share |-> formatPercentage(countries[index].share),
      rawValue |-> countries[index].value,
      rawShare |-> countries[index].share]]

processGeographicData(data) ==
  [importingCountries |-> processCountries(OrEmpty(data.importingCountries)),
   exportingCountries |-> processCountries(OrEmpty(data.exportingCountries))]

\* processEntities formatting the fraction value / totalValue as the share
processEntities_fraction(entities, totalValue) ==
  [index \in 1..Len(entities) |->
     [rank |-> (index - 1) + 1,
      name |-> entities[index].name,
      country |-> entities[index].country,
      value |-> formatCurrency(entities[index].value),
      share |-> formatPercentage(JsDiv(entities[index].value, totalValue)),
      rawValue |-> entities[index].value,
      rawShare |-> JsMul(JsDiv(entities[index].value, totalValue), Num(100))]]

processEntities(entities, totalValue) ==
  [index \in 1..Len(entities) |->
     [rank |-> (index - 1) + 1,
      name |-> entities[index].name,
      country |-> entities[index].country,
      value |-> formatCurrency(entities[index].value),
      share |-> formatPercentage(
                  JsMul(JsDiv(entities[index].value, totalValue), Num(100))),
      rawValue |-> entities[index].value,
      rawShare |-> JsMul(JsDiv(entities[index].value, totalValue), Num(100))]]

processSupplierData(data) ==
  [topSuppliers |-> processEntities(OrEmpty(data.topSuppliers), data.totalValue)]

processBuyerData(data) ==
  [topBuyers |-> processEntities(OrEmpty(data.topBuyers), data.totalValue)]

\* the loop running while i <= 2340
NumRecords_inclusive == 2340 + 1

\* for (let i = 0; i < 2340; i++)
NumRecords == 2340

\* shipmentsPerSlide: 10
ShipmentsPerSlide == 10

\* the c-th call of Math.random() (c counted from 0) under the stream rnd
MathRandom(rnd, c) == Rat(rnd[(c % Len(rnd)) + 1], RandLevels)

\* Math.random() is called seven times per record, in property order
RandomCallsPerRecord == 7

generateRandomDate(r) == "2023+" \o Digits(Floor(JsMul(r, Num(364)))) \o "d"

generateRandomQuantity(r) == Num(Floor(JsMul(r, Num(10000))) + 100)

generateRandomPrice(data, r) ==
  LET basePrice == OrElse(data.avgPrice, Num(100))
      variation == JsMul(basePrice, Rat(3, 10))
  IN  JsAdd(basePrice, JsMul(JsAdd(r, Rat(-1, 2)), variation))

generateRandomValue(data, r1, r2) ==
  JsMul(generateRandomQuantity(r1), generateRandomPrice(data, r2))

Ports(country) ==
  CASE country = "USA" -> <<"New York", "Los Angeles", "Miami", "Houston">>
    [] country = "India" -> <<"Mumbai", "Chennai", "Kolkata", "Cochin">>
    [] country = "China" -> <<"Shanghai", "Shenzhen", "Qingdao", "Tianjin">>
    [] country = "Germany" -> <<"Hamburg", "Bremen", "Bremerhaven">>
    [] country = "UK" -> <<"London", "Southampton", "Liverpool">>
    [] country = "France" -> <<"Le Havre", "Marseille", "Dunkirk">>
    [] OTHER -> <<"Unknown Port">>

generateRandomPort(country, r) ==
  Ports(country)[Floor(JsMul(r, Num(Len(Ports(country))))) + 1]

\* Cycle starting at the second entry of the list
Cycle_offByOne(list, i, fallback) ==
  IF Len(list) = 0 THEN fallback ELSE list[((i + 1) % Len(list)) + 1]

\* list[i % list.length] || fallback   (i % 0 is NaN, which indexes nothing)
Cycle(list, i, fallback) ==
  IF Len(list) = 0 THEN fallback ELSE list[(i % Len(list)) + 1]

\* the properties of a record that come from Math.random() alone, for the
\* record whose first call of Math.random() is call c
RandomFields(data, rnd, c) ==
  [date |-> generateRandomDate(MathRandom(rnd, c)),
   quantity |-> generateRandomQuantity(MathRandom(rnd, c + 1)),
   unitPrice |-> formatCurrency(generateRandomPrice(data, MathRandom(rnd, c + 2))),
   totalValue |-> formatCurrency(
     generateRandomValue(data, MathRandom(rnd, c + 3), MathRandom(rnd, c + 4)))]

\* RandomFields for each phase of the periodic stream, phase p at index p + 1
RECURSIVE RandomTable(_, _, _)
RandomTable(data, rnd, phases) ==
  IF phases = 0 THEN <<>>
  ELSE Append(RandomTable(data, rnd, phases - 1), RandomFields(data, rnd, phases - 1))

\* ShipmentRecord picking the supplier by an outcome of Math.random()
ShipmentRecord_randomSupplier(data, rnd, i, c, drawn) ==
  LET supplier == Cycle(OrEmpty(data.topSuppliers), rnd[(c % Len(rnd)) + 1],
                        [name |-> "Unknown Supplier", country |-> "Unknown"])
      buyer == Cycle(OrEmpty(data.topBuyers), i,
                     [name |-> "Unknown Buyer", country |-> "Unknown"])
  IN  [id |-> i + 1,
       date |-> drawn.date,
       supplier |-> supplier.name,
       supplierCountry |-> supplier.country,
       buyer |-> buyer.name,
       buyerCountry |-> buyer.country,
       quantity |-> drawn.quantity,
       unitPrice |-> drawn.unitPrice,
       totalValue |-> drawn.totalValue,
       hsCode |-> data.hsCode,
       portOfLoading |-> generateRandomPort(supplier.country, MathRandom(rnd, c + 5)),
       portOfDischarge |-> generateRandomPort(buyer.country, MathRandom(rnd, c + 6))]

\* the record pushed in iteration i of the loop (i counted from 0); drawn is
\* RandomFields of the record's first call, c
ShipmentRecord(data, rnd, i, c, drawn) ==
  LET supplier == Cycle(OrEmpty(data.topSuppliers), i,
                        [name |-> "Unknown Supplier", country |-> "Unknown"])
      buyer == Cycle(OrEmpty(data.topBuyers), i,
                     [name |-> "Unknown Buyer", country |-> "Unknown"])
  IN  [id |-> i + 1,
       date |-> drawn.date,
       supplier |-> supplier.name,
       supplierCountry |-> supplier.country,
       buyer |-> buyer.name,
       buyerCountry |-> buyer.country,
       quantity |-> drawn.quantity,
       unitPrice |-> drawn.unitPrice,
       totalValue |-> drawn.totalValue,
       hsCode |-> data.hsCode,
       portOfLoading |-> generateRandomPort(supplier.country, MathRandom(rnd, c + 5)),
       portOfDischarge |-> generateRandomPort(buyer.country, MathRandom(rnd, c + 6))]

\* the first count iterations of the loop of generateShipmentRecords
ShipmentLoop(data, rnd, count) ==
  LET table == RandomTable(data, rnd, Len(rnd))
  IN  [j \in 1..count |->
         ShipmentRecord(data, rnd, j - 1, RandomCallsPerRecord * (j - 1),
           table[((RandomCallsPerRecord * (j - 1)) % Len(rnd)) + 1])]

generateShipmentRecords(data, rnd) == ShipmentLoop(data, rnd, NumRecords)

\* Math.ceil(a / b) for naturals
Ceil(a, b) == (a + b - 1) \div b

\* processShipmentData with Math.floor(length / 10) + 1 slides
processShipmentData_floorPlusOne(data, rnd) ==
  LET shipments == generateShipmentRecords(data, rnd)
  IN  [totalShipments |-> Len(shipments),
       shipmentRecords |-> shipments,
       shipmentsPerSlide |-> ShipmentsPerSlide,
       totalSlides |-> (Len(shipments) \div ShipmentsPerSlide) + 1]

processShipmentData(data, rnd) ==
  LET shipments == generateShipmentRecords(data, rnd)
  IN  [totalShipments |-> Len(shipments),
       shipmentRecords |-> shipments,
       shipmentsPerSlide |-> ShipmentsPerSlide,
       totalSlides |-> Ceil(Len(shipments), ShipmentsPerSlide)]

\* The record array is an object of its own: processedData refers to it, and
\* its content is the one generateShipmentRecords built from the input and
\* the outcomes of Math.random.
ArrayRef(array) == [ref |-> "shipmentRecords", length |-> Len(array)]

processAllData(data, rnd) ==
  [product |-> processProductInfo(data),
   market |-> processMarketData(data),
   geography |-> processGeographicData(data),
   suppliers |-> processSupplierData(data),
   buyers |-> processBuyerData(data),
   shipments |-> [processShipmentData(data, rnd) EXCEPT
                    !.shipmentRecords = ArrayRef(@)]]

\* the array processedData.shipments.shipmentRecords refers to
shipmentRecords(data, rnd) == generateShipmentRecords(data, rnd)

(***************************************************************************)
(* MainOrchestrator: the slide structure table                              *)
(***************************************************************************)
SectionNames ==
  << "foundation", "importingCountries", "exportingCountries",
     "supplierBuyer", "pricing", "shipmentRecords" >>

\* a plan entry; rank and the record range are 0 where the entry has none
SlideDef(id, type, title, rank, recordStart, recordEnd) ==
  [id |-> id, type |-> type, title |-> title, rank |-> rank,
   recordStart |-> recordStart, recordEnd |-> recordEnd]

Plain(id, type, title) == SlideDef(id, type, title, 0, 0, 0)

\* Array.from({length: n}, (_, i) => ...), i counted from 0
\* Ranked with ids that start one after the first id of the range
Ranked_idOffByOne(n, firstId, type, prefix, suffix) ==
  [j \in 1..n |->
     SlideDef(firstId + j, type,
              prefix \o Digits((j - 1) + 1) \o suffix, (j - 1) + 1, 0, 0)]

Ranked(n, firstId, type, prefix, suffix) ==
  [j \in 1..n |->
     SlideDef(firstId + (j - 1), type,
              prefix \o Digits((j - 1) + 1) \o suffix, (j - 1) + 1, 0, 0)]

\* the length taken as the difference of the ids 67 and 300
ShipmentSlides_idDifference == 300 - 67

\* Array.from({length: 234}, ...): the length of the shipment section
ShipmentSlides == 234

\* ShipmentSlideDef with a record range that ends one record early
ShipmentSlideDef_endsEarly(i) ==
  SlideDef(67 + i, "shipment_records", "Shipment Records " \o Digits(i + 1), 0,
           i * 10 + 1, (i + 1) * 10 - 1)

\* the element Array.from builds at index i of the shipment section
ShipmentSlideDef(i) ==
  SlideDef(67 + i, "shipment_records", "Shipment Records " \o Digits(i + 1), 0,
           i * 10 + 1, (i + 1) * 10)

defineSlideStructure ==
  [foundation |->
     [range |-> <<1, 8>>,
      slides |->
        << Plain(1, "title_agenda", "Title & Agenda generation"),
           Plain(2, "table_of_contents", "Table of Contents"),
           Plain(3, "executive_summary", "Executive Summary (Key Findings)"),
           Plain(4, "product_overview", "Product Overview"),
           Plain(5, "market_share_analysis", "Market share analysis- value, volume, import, export, countries"),
           Plain(6, "geography_intelligence", "Geography Import Export Intelligence- top 10 value and volume along with export and import"),
           Plain(7, "supplier_buyer_relationships", "Supplier-Buyer Relationships with countries- Sankey Diagram"),
           Plain(8, "top_importing_countries", "Top 10 Importing countries- name, market share and charts") >>],
   importingCountries |->
     [range |-> <<9, 23>>,
      slides |->
        Ranked(5, 9, "importing_country_suppliers",
               "Top ", " Importing country- Who are the top 10 suppliers countries")
        \o Ranked(10, 14, "importing_country_companies",
                  "Top ", " Importing country- Who are the top 10 suppliers companies")],
   exportingCountries |->
     [range |-> <<24, 39>>,
      slides |->
        << Plain(24, "top_exporting_countries", "Top 10 Exporting countries- name, market share and charts") >>
        \o Ranked(5, 25, "exporting_country_destinations",
                  "Top ", " Exporting country- Who are the top 10 destination countries")
        \o Ranked(10, 30, "exporting_country_companies",
                  "Top ", " Exporting country- Who are the top 10 Importer companies")],
   supplierBuyer |->
     [range |-> <<40, 62>>,
      slides |->
        << Plain(40, "supplier_buyer_intelligence", "SUPPLIER & BUYER INTELLIGENCE - Sankey Diagram"),
           Plain(41, "top_suppliers_analysis", "Top 15 Suppliers Analysis- market share, suppliers countries and importers name - Sankey Diagram") >>
        \o Ranked(10, 42, "supplier_detailed_analysis",
                  "Top ", " Supplier detailed analysis- price, number of destination countries, market share and charts")
        \o << Plain(52, "top_importers_analysis", "Top 15 Importers Analysis- Market share, Suppliers countries and Importers name- Sankey Diagram") >>
        \o Ranked(10, 53, "importer_detailed_analysis",
                  "Top ", " Importer detailed analysis- price, market share, number of suppliers countries and charts")],
   pricing |->
     [range |-> <<63, 63>>,
      slides |-> << Plain(63, "pricing_analysis", "Pricing analysis (per unit)") >>],
   shipmentRecords |->
     [range |-> <<67, 300>>,
      slides |->
        [j \in 1..ShipmentSlides |-> ShipmentSlideDef(j - 1)]]]

(***************************************************************************)
(* Section generators.  A render either returns a slide or throws.          *)
(***************************************************************************)
Returned(slide) == [ok |-> TRUE, slide |-> slide, error |-> ""]

Thrown(message) == [ok |-> FALSE, slide |-> Undefined, error |-> message]

\* templateEngine.generateStandardSlide / generateTitleSlide / generateTOCSlide:
\* the fragment of one slide (the markup itself is not modelled)
generateStandardSlide(id, title, content) ==
  [slide |-> id, content |-> content]

Slide(slideDef, title, content) ==
  [id |-> slideDef.id, type |-> slideDef.type, title |-> title,
   html |-> generateStandardSlide(slideDef.id, title, content)]

\* the case labels of each section's switch (ShipmentRecordsSection has none)
SectionTypes(sectionName) ==
  CASE sectionName = "foundation" ->
         {"title_agenda", "table_of_contents", "executive_summary",
          "product_overview", "market_share_analysis", "geography_intelligence",
          "supplier_buyer_relationships", "top_importing_countries"}
    [] sectionName = "importingCountries" ->
         {"importing_country_suppliers", "importing_country_companies"}
    [] sectionName = "exportingCountries" ->
         {"top_exporting_countries", "exporting_country_destinations",
          "exporting_country_companies"}
    [] sectionName = "supplierBuyer" ->
         {"supplier_buyer_intelligence", "top_suppliers_analysis",
          "supplier_detailed_analysis", "top_importers_analysis",
          "importer_detailed_analysis"}
    [] sectionName = "pricing" -> {"pricing_analysis"}

\* RankLookup reading list[rank]
RankLookup_zeroBased(list, rank, what) ==
  IF rank >= 0 /\ rank + 1 <= Len(list)
    THEN [found |-> TRUE, entry |-> list[rank + 1], error |-> ""]
    ELSE [found |-> FALSE, entry |-> Undefined,
          error |-> what \o " at rank " \o Digits(rank) \o " not found"]

\* list[rank - 1], with the thrown message when the entry is missing
RankLookup(list, rank, what) ==
  IF rank >= 1 /\ rank <= Len(list)
    THEN [found |-> TRUE, entry |-> list[(rank - 1) + 1], error |-> ""]
    ELSE [found |-> FALSE, entry |-> Undefined,
          error |-> what \o " at rank " \o Digits(rank) \o " not found"]

\* the slide of a plan entry whose title is derived from a ranked entry
\* key names the property of the entry the title starts with
RankedSlide(slideDef, list, what, key, suffix) ==
  LET hit == RankLookup(list, slideDef.rank, what)
  IN  IF hit.found
        THEN Returned(Slide(slideDef, hit.entry[key] \o suffix, "ranked"))
        ELSE Thrown(hit.error)

\* FoundationSection.generateSlides, one iteration of the loop
generateFoundationSlide(data, slideDef) ==
  IF slideDef.type \notin SectionTypes("foundation")
    THEN Thrown("Unknown slide type: " \o slideDef.type)
  ELSE IF slideDef.type = "geography_intelligence"
          /\ (Len(data.geography.exportingCountries) < 2
              \/ Len(data.geography.importingCountries) < 2)
    THEN Thrown("TypeError: Cannot read properties of undefined")
  ELSE Returned(Slide(slideDef, slideDef.title, "foundation"))

\* ImportingCountriesSection.generateSlides, one iteration of the loop
generateImportingSlide(data, slideDef) ==
  CASE slideDef.type = "importing_country_suppliers" ->
         RankedSlide(slideDef, data.geography.importingCountries,
                     "Importing country", "country", ": Top Supplier Countries")
    [] slideDef.type = "importing_country_companies" ->
         RankedSlide(slideDef, data.geography.importingCountries,
                     "Importing country", "country", ": Top Supplier Companies")
    [] OTHER -> Thrown("Unknown slide type: " \o slideDef.type)

\* ExportingCountriesSection.generateSlides, one iteration of the loop
generateExportingSlide(data, slideDef) ==
  CASE slideDef.type = "top_exporting_countries" ->
         Returned(Slide(slideDef, slideDef.title, "exporting"))
    [] slideDef.type = "exporting_country_destinations" ->
         RankedSlide(slideDef, data.geography.exportingCountries,
                     "Exporting country", "country", ": Top Destination Countries")
    [] slideDef.type = "exporting_country_companies" ->
         RankedSlide(slideDef, data.geography.exportingCountries,
                     "Exporting country", "country", ": Top Importer Companies")
    [] OTHER -> Thrown("Unknown slide type: " \o slideDef.type)

\* SupplierBuyerSection.generateSlides, one iteration of the loop
generateSupplierBuyerSlide(data, slideDef) ==
  CASE slideDef.type \in {"supplier_buyer_intelligence", "top_suppliers_analysis",
                          "top_importers_analysis"} ->
         Returned(Slide(slideDef, slideDef.title, "supplierBuyer"))
    [] slideDef.type = "supplier_detailed_analysis" ->
         RankedSlide(slideDef, data.suppliers.topSuppliers,
                     "Supplier", "name", " - Detailed Analysis")
    [] slideDef.type = "importer_detailed_analysis" ->
         RankedSlide(slideDef, data.buyers.topBuyers,
                     "Importer", "name", " - Detailed Analysis")
    [] OTHER -> Thrown("Unknown slide type: " \o slideDef.type)

\* PricingSection.generateSlides, one iteration of the loop
generatePricingSlide(data, slideDef) ==
  IF slideDef.type = "pricing_analysis"
    THEN Returned(Slide(slideDef, slideDef.title, "pricing"))
    ELSE Thrown("Unknown slide type: " \o slideDef.type)

(***************************************************************************)
(* ShipmentRecordsSection                                                   *)
(***************************************************************************)
Min(a, b) == IF a < b THEN a ELSE b

Max(a, b) == IF a > b THEN a ELSE b

\* Array.prototype.slice(start, end): a negative index counts from the end
Slice(array, start, end) ==
  LET from == IF start < 0 THEN Max(Len(array) + start, 0) ELSE Min(start, Len(array))
      to == IF end < 0 THEN Max(Len(array) + end, 0) ELSE Min(end, Len(array))
  IN  SubSeq(array, from + 1, to)

\* text.replace(/[$,]/g, '')
RECURSIVE StripCurrency(_)
StripCurrency(text) ==
  IF text = "" THEN ""
  ELSE IF SubSeq(text, 1, 1) \in {"$", ","} THEN StripCurrency(Tail(text))
  ELSE SubSeq(text, 1, 1) \o StripCurrency(Tail(text))

DigitValue(ch) ==
  CASE ch = "0" -> 0 [] ch = "1" -> 1 [] ch = "2" -> 2 [] ch = "3" -> 3
    [] ch = "4" -> 4 [] ch = "5" -> 5 [] ch = "6" -> 6 [] ch = "7" -> 7
    [] ch = "8" -> 8 [] ch = "9" -> 9 [] OTHER -> -1

\* the value of the longest prefix of decimal digits, acc digits read so far
RECURSIVE ParseDigits(_, _, _)
ParseDigits(text, acc, seen) ==
  IF text = "" \/ DigitValue(SubSeq(text, 1, 1)) < 0
    THEN IF seen THEN Num(acc) ELSE NaN
    ELSE ParseDigits(Tail(text), acc * 10 + DigitValue(SubSeq(text, 1, 1)), TRUE)

\* parseFloat on the texts formatCurrency produces once '$' and ',' are gone
parseFloat(text) ==
  IF text = "Infinity" THEN Infinity
  ELSE IF text = "-Infinity" THEN NegInfinity
  ELSE IF text # "" /\ SubSeq(text, 1, 1) = "-"
    THEN LET v == ParseDigits(Tail(text), 0, FALSE)
         IN  IF IsNaN(v) THEN NaN ELSE Num(-v.n)
  ELSE ParseDigits(text, 0, FALSE)

\* values.reduce((sum, value) => sum + value, 0)
RECURSIVE Sum(_)
Sum(values) ==
  IF values = <<>> THEN Num(0)
  ELSE JsAdd(Sum(SubSeq(values, 1, Len(values) - 1)), values[Len(values)])

\* records.map(r => r[key])
Field(records, key) == [j \in 1..Len(records) |-> records[j][key]]

\* records.map(r => parseFloat(r.totalValue.replace(/[$,]/g, '')))
RecordValues(records) ==
  [j \in 1..Len(records) |-> parseFloat(StripCurrency(records[j].totalValue))]

\* the keys of countryCount, in insertion order
RECURSIVE Keys(_)
Keys(names) ==
  IF names = <<>> THEN <<>>
  ELSE LET front == Keys(SubSeq(names, 1, Len(names) - 1))
           last == names[Len(names)]
       IN  IF \E j \in 1..Len(front) : front[j] = last
             THEN front ELSE Append(front, last)

Occurrences(names, name) == Cardinality({j \in 1..Len(names) : names[j] = name})

\* keys.reduce((a, b) => countryCount[a] > countryCount[b] ? a : b)
RECURSIVE ReduceTop(_, _)
ReduceTop(keys, names) ==
  IF Len(keys) = 1 THEN keys[1]
  ELSE LET a == ReduceTop(SubSeq(keys, 1, Len(keys) - 1), names)
           b == keys[Len(keys)]
       IN  IF Occurrences(names, a) > Occurrences(names, b) THEN a ELSE b

\* getTopCountry: reduce without an initial value throws on an empty array
getTopCountry(countries) ==
  IF countries = <<>>
    THEN [ok |-> FALSE, country |-> ""]
    ELSE [ok |-> TRUE, country |-> ReduceTop(Keys(countries), countries)]

\* the Record ID column of the records table
generateShipmentRecordsTable(records) ==
  [j \in 1..Len(records) |-> records[j].id]

\* generateRecordsSummary averaging over the batch size
generateRecordsSummary_batchSize(records, startRecord, endRecord) ==
  LET totalValue == Sum(RecordValues(records))
      totalQuantity == Sum(Field(records, "quantity"))
      avgUnitPrice == JsDiv(totalValue, totalQuantity)
  IN  [title |-> "Records " \o Digits(startRecord) \o "-" \o Digits(endRecord)
                   \o " Summary",
       recordCount |-> ShipmentsPerSlide,
       totalValue |-> formatCurrency(totalValue),
       totalQuantity |-> formatNumber(totalQuantity),
       avgQuantity |-> formatNumber(JsDiv(totalQuantity, Num(ShipmentsPerSlide))),
       avgUnitPrice |-> formatCurrency(avgUnitPrice),
       uniqueSuppliers |-> Len(Keys(Field(records, "supplier"))),
       uniqueBuyers |-> Len(Keys(Field(records, "buyer"))),
       uniqueCountries |-> Len(Keys(Field(records, "supplierCountry")
                                      \o Field(records, "buyerCountry"))),
       topSupplierCountry |-> getTopCountry(Field(records, "supplierCountry")).country,
       topBuyerCountry |-> getTopCountry(Field(records, "buyerCountry")).country]

\* the figures the summary block prints
generateRecordsSummary(records, startRecord, endRecord) ==
  LET totalValue == Sum(RecordValues(records))
      totalQuantity == Sum(Field(records, "quantity"))
      avgUnitPrice == JsDiv(totalValue, totalQuantity)
  IN  [title |-> "Records " \o Digits(startRecord) \o "-" \o Digits(endRecord)
                   \o " Summary",
       recordCount |-> Len(records),
       totalValue |-> formatCurrency(totalValue),
       totalQuantity |-> formatNumber(totalQuantity),
       avgQuantity |-> formatNumber(JsDiv(totalQuantity, Num(Len(records)))),
       avgUnitPrice |-> formatCurrency(avgUnitPrice),
       uniqueSuppliers |-> Len(Keys(Field(records, "supplier"))),
       uniqueBuyers |-> Len(Keys(Field(records, "buyer"))),
       uniqueCountries |-> Len(Keys(Field(records, "supplierCountry")
                                      \o Field(records, "buyerCountry"))),
       topSupplierCountry |-> getTopCountry(Field(records, "supplierCountry")).country,
       topBuyerCountry |-> getTopCountry(Field(records, "buyerCountry")).country]

generateShipmentRecordsSlide(slideDef, allRecords) ==
  LET startIndex == slideDef.recordStart - 1
      endIndex == slideDef.recordEnd
      slideRecords == Slice(allRecords, startIndex, endIndex)
  IN  IF ~getTopCountry(Field(slideRecords, "supplierCountry")).ok
        THEN Thrown("TypeError: Reduce of empty array with no initial value")
        ELSE Returned(Slide(slideDef,
               "Shipment Records " \o Digits(slideDef.recordStart) \o "-"
                 \o Digits(slideDef.recordEnd),
               [summary |-> generateRecordsSummary(slideRecords,
                              slideDef.recordStart, slideDef.recordEnd),
                table |-> generateShipmentRecordsTable(slideRecords)]))

(***************************************************************************)
(* The per-country company tables of the importing and exporting sections   *)
(***************************************************************************)
\* multipliers[importingCountry]?.[supplierCountry] || 0.1
getCountryMultiplier(importingCountry, supplierCountry) ==
  CASE importingCountry = "United States" /\ supplierCountry = "India" -> Rat(40, 100)
    [] importingCountry = "United States" /\ supplierCountry = "USA" -> Rat(30, 100)
    [] importingCountry = "United States" /\ supplierCountry = "Israel" -> Rat(20, 100)
    [] importingCountry = "United States" /\ supplierCountry = "China" -> Rat(10, 100)
    [] importingCountry = "Germany" /\ supplierCountry = "India" -> Rat(35, 100)
    [] importingCountry = "Germany" /\ supplierCountry = "USA" -> Rat(25, 100)
    [] importingCountry = "Germany" /\ supplierCountry = "Germany" -> Rat(20, 100)
    [] importingCountry = "Germany" /\ supplierCountry = "Israel" -> Rat(20, 100)
    [] importingCountry = "United Kingdom" /\ supplierCountry = "India" -> Rat(40, 100)
    [] importingCountry = "United Kingdom" /\ supplierCountry = "USA" -> Rat(25, 100)
    [] importingCountry = "United Kingdom" /\ supplierCountry = "Israel" -> Rat(20, 100)
    [] importingCountry = "United Kingdom" /\ supplierCountry = "Germany" -> Rat(15, 100)
    [] OTHER -> Rat(10, 100)

\* multipliers[exportingCountry]?.[buyerCountry] || 0.1
getExportCountryMultiplier(exportingCountry, buyerCountry) ==
  CASE exportingCountry = "India" /\ buyerCountry = "USA" -> Rat(35, 100)
    [] exportingCountry = "India" /\ buyerCountry = "Germany" -> Rat(20, 100)
    [] exportingCountry = "India" /\ buyerCountry = "UK" -> Rat(15, 100)
    [] exportingCountry = "India" /\ buyerCountry \in {"France", "Japan", "Canada"} ->
         Rat(10, 100)
    [] exportingCountry = "United States" /\ buyerCountry = "USA" -> Rat(40, 100)
    [] exportingCountry = "United States" /\ buyerCountry = "Germany" -> Rat(20, 100)
    [] exportingCountry = "United States" /\ buyerCountry \in {"UK", "Canada"} ->
         Rat(15, 100)
    [] exportingCountry = "United States" /\ buyerCountry = "Japan" -> Rat(10, 100)
    [] exportingCountry = "Israel" /\ buyerCountry = "USA" -> Rat(40, 100)
    [] exportingCountry = "Israel" /\ buyerCountry = "Germany" -> Rat(25, 100)
    [] exportingCountry = "Israel" /\ buyerCountry = "UK" -> Rat(20, 100)
    [] exportingCountry = "Israel" /\ buyerCountry = "France" -> Rat(15, 100)
    [] OTHER -> Rat(10, 100)

\* a < b on finite numbers
Less(a, b) == a.n * b.d < b.n * a.d

\* `${x.toFixed(0)}%`
ShareText(x) ==
  IF ~IsFinite(x) THEN "NaN%"
  ELSE (IF x.n < 0 /\ RoundScaled(AbsNum(x), 1) # 0 THEN "-" ELSE "")
         \o Digits(RoundScaled(AbsNum(x), 1)) \o "%"

\* the object the map callback returns for the entity at position index
\* (counted from 0); the arrows of yoyGrowth are spelled "up" and "down"
CompanyEntry(entity, index, baseValue, multiplier, rnd) ==
  LET estimatedValue ==
        JsDiv(JsMul(JsMul(baseValue, multiplier), Rat(10 - index, 10)), Num(8))
      marketShare == JsMul(JsDiv(estimatedValue, baseValue), Num(100))
      growth == JsMul(JsAdd(MathRandom(rnd, index), Rat(-1, 2)), Num(40))
  IN  [rank |-> index + 1,
       company |-> entity.name,
       country |-> entity.country,
       estValue |-> formatCurrency(estimatedValue),
       marketShare |-> ShareText(marketShare),
       yoyGrowth |-> (IF growth.n > 0 THEN "up " ELSE "down ")
                       \o formatPercentage(AbsNum(growth)),
       rawValue |-> estimatedValue,
       rawShare |-> marketShare,
       rawGrowth |-> growth]

\* sorted, a list in descending rawValue order, with entry put behind the
\* entries that are not smaller
RECURSIVE InsertByRawValue(_, _)
InsertByRawValue(sorted, entry) ==
  IF sorted = <<>> THEN << entry >>
  ELSE IF Less(sorted[1].rawValue, entry.rawValue) THEN << entry >> \o sorted
  ELSE << sorted[1] >> \o InsertByRawValue(Tail(sorted), entry)

\* companies.sort((a, b) => b.rawValue - a.rawValue): a stable sort, on
\* exact values
RECURSIVE SortByRawValue(_)
SortByRawValue(companies) ==
  IF companies = <<>> THEN <<>>
  ELSE InsertByRawValue(SortByRawValue(SubSeq(companies, 1, Len(companies) - 1)),
                        companies[Len(companies)])

\* generateSupplierCompaniesData whose callback writes the estimate into the
\* supplier object it is given
generateSupplierCompaniesData_annotatesInPlace(data, importingCountry, rnd) ==
  LET top == Slice(data.suppliers.topSuppliers, 0, 8)
      companies ==
        [j \in 1..Len(top) |->
           CompanyEntry(top[j], j - 1, importingCountry.rawValue,
                        getCountryMultiplier(importingCountry.country, top[j].country),
                        rnd)]
  IN  [value |-> SortByRawValue(companies),
       data |-> [data EXCEPT !.suppliers.topSuppliers =
                   [j \in 1..Len(@) |->
                      IF j <= Len(companies)
                        THEN [@[j] EXCEPT !.rawValue = companies[j].rawValue]
                        ELSE @[j]]]]

\* generateSupplierCompaniesData(importingCountry): value is the array it
\* returns, data the processed data after the call; slice and map build new
\* arrays and new objects, and sort reorders the array map returned
generateSupplierCompaniesData(data, importingCountry, rnd) ==
  LET top == Slice(data.suppliers.topSuppliers, 0, 8)
      companies ==
        [j \in 1..Len(top) |->
           CompanyEntry(top[j], j - 1, importingCountry.rawValue,
                        getCountryMultiplier(importingCountry.country, top[j].country),
                        rnd)]
  IN  [value |-> SortByRawValue(companies), data |-> data]

\* generateImporterCompaniesData(exportingCountry), as above
generateImporterCompaniesData(data, exportingCountry, rnd) ==
  LET top == Slice(data.buyers.topBuyers, 0, 8)
      companies ==
        [j \in 1..Len(top) |->
           CompanyEntry(top[j], j - 1, exportingCountry.rawValue,
                        getExportCountryMultiplier(exportingCountry.country,
                                                   top[j].country),
                        rnd)]
  IN  [value |-> SortByRawValue(companies), data |-> data]

\* the rows generateSupplierCompaniesTable and generateImporterCompaniesTable
\* hand to generateTable, one per company in array order
CompaniesTableRows(companies) ==
  [j \in 1..Len(companies) |->
     << companies[j].rank, companies[j].company, companies[j].country,
        companies[j].estValue, companies[j].marketShare, companies[j].yoyGrowth >>]

\* one iteration of the loop of the section's generateSlides
generateSlide(sectionName, data, allRecords, slideDef) ==
  CASE sectionName = "foundation" -> generateFoundationSlide(data, slideDef)
    [] sectionName = "importingCountries" -> generateImportingSlide(data, slideDef)
    [] sectionName = "exportingCountries" -> generateExportingSlide(data, slideDef)
    [] sectionName = "supplierBuyer" -> generateSupplierBuyerSlide(data, slideDef)
    [] sectionName = "pricing" -> generatePricingSlide(data, slideDef)
    [] sectionName = "shipmentRecords" ->
         generateShipmentRecordsSlide(slideDef, allRecords)

\* generateSlides putting each new slide in front of the earlier ones
generateSlides_unshift(sectionName, data, allRecords, slideDefinitions) ==
  LET results == [j \in 1..Len(slideDefinitions) |->
                    generateSlide(sectionName, data, allRecords, slideDefinitions[j])]
      failed == {j \in 1..Len(slideDefinitions) : ~results[j].ok}
  IN  IF failed = {}
        THEN [ok |-> TRUE, error |-> "",
              slides |-> [j \in 1..Len(slideDefinitions) |->
                            results[Len(slideDefinitions) + 1 - j].slide]]
        ELSE [ok |-> FALSE, slides |-> <<>>,
              error |-> results[CHOOSE j \in failed : \A l \in failed : j <= l].error]

\* generateSlides(slideDefinitions) of a section: the loop stops at the first
\* slide that throws, otherwise the slides are returned in definition order
generateSlides(sectionName, data, allRecords, slideDefinitions) ==
  LET results == [j \in 1..Len(slideDefinitions) |->
                    generateSlide(sectionName, data, allRecords, slideDefinitions[j])]
      failed == {j \in 1..Len(slideDefinitions) : ~results[j].ok}
  IN  IF failed = {}
        THEN [ok |-> TRUE, error |-> "",
              slides |-> [j \in 1..Len(slideDefinitions) |-> results[j].slide]]
        ELSE [ok |-> FALSE, slides |-> <<>>,
              error |-> results[CHOOSE j \in failed : \A l \in failed : j <= l].error]

\* the processed data after the section's generateSlides ran over the
\* entries from the j-th on: the loop calls the renderer of each entry until
\* one throws, and the renderers of the company slides call
\* generateSupplierCompaniesData and generateImporterCompaniesData
RECURSIVE dataAfterGenerateSlides(_, _, _, _, _)
dataAfterGenerateSlides(sectionName, data, rnd, slideDefinitions, j) ==
  IF j > Len(slideDefinitions) \/ sectionName = "shipmentRecords" THEN data
  ELSE IF ~generateSlide(sectionName, data, <<>>, slideDefinitions[j]).ok THEN data
  ELSE LET slideDef == slideDefinitions[j]
           after ==
             IF sectionName = "importingCountries"
                  /\ slideDef.type = "importing_country_companies"
               THEN generateSupplierCompaniesData(data,
                      data.geography.importingCountries[(slideDef.rank - 1) + 1], rnd).data
             ELSE IF sectionName = "exportingCountries"
                       /\ slideDef.type = "exporting_country_companies"
               THEN generateImporterCompaniesData(data,
                      data.geography.exportingCountries[(slideDef.rank - 1) + 1], rnd).data
             ELSE data
       IN  dataAfterGenerateSlides(sectionName, after, rnd, slideDefinitions, j + 1)

(***************************************************************************)
(* State                                                                    *)
(***************************************************************************)
VARIABLES
  productData,      \* the raw input handed to the constructors
  random,           \* the outcomes Math.random() yields, as a periodic stream
  processedData,    \* DataProcessor.processedData
  slideStructure,   \* MainOrchestrator.slideStructure
  slides,           \* MainOrchestrator.slides
  pc,               \* control point of the operation in progress
  section,          \* generateAllSlides: index of the section being generated
  slideCount,       \* generateAllSlides: the local counter slideCount
  outcome,          \* how the last generateAllSlides call ended
  calls,            \* number of generateAllSlides calls started
  document,         \* the HTML document exportToHTML wrote last
  args,             \* arguments of the function under evaluation
  ret               \* its result

vars ==
  << productData, random, processedData, slideStructure, slides, pc, section,
     slideCount, outcome, calls, document, args, ret >>

dataVars == << productData, random, processedData, slideStructure, args, ret >>

orchestratorVars ==
  << slideStructure, slides, section, slideCount, outcome, calls, document >>

\* if (slideCount !== 297)
ExpectedSlides == 297

\* calls of generateAllSlides explored on one orchestrator
MaxCalls == 2

\* the largest rank the slide structure refers to
PlanMaxRank == 10

\* ranked lists longer than the largest rank of the plan, by up to this many
MaxExtra == 1

\* longest record list handed to the shipment slide renderer on its own
MaxRecords == 25

None == [kind |-> "none", message |-> ""]

\* the random streams: every sequence of RandPeriod outcomes
Streams == [1..RandPeriod -> 0..(RandLevels - 1)]

\* a stream in which consecutive outcomes differ
AlternatingStream == [j \in 1..RandPeriod |-> j % RandLevels]

(***************************************************************************)
(* MainOrchestrator: construction and generateAllSlides                     *)
(***************************************************************************)
\* lengths of (importingCountries, exportingCountries, topSuppliers,
\* topBuyers): every list long enough for the plan, exactly one list one
\* entry short, and lists of a single entry
OrchestratorLengths ==
  { <<n, n, n, n>> : n \in PlanMaxRank..(PlanMaxRank + MaxExtra) }
    \cup { [j \in 1..4 |-> IF j = short THEN PlanMaxRank - 1 ELSE PlanMaxRank] :
             short \in 1..4 }
    \cup { <<1, 1, 1, 1>> }

\* new MainOrchestrator(productData)
Init ==
  /\ \E l \in OrchestratorLengths :
       productData = ProductData(Num(1000), Num(7), l[1], l[2], l[3], l[4], 1)
  /\ random = AlternatingStream
  /\ processedData = processAllData(productData, random)
  /\ slideStructure = defineSlideStructure
  /\ slides = <<>>
  /\ pc = "idle"
  /\ section = 0
  /\ slideCount = 0
  /\ outcome = None
  /\ calls = 0
  /\ document = None
  /\ args = <<>>
  /\ ret = None

\* BeginGenerateAllSlides without this.slides = []
BeginGenerateAllSlides_keepsSlides ==
  /\ pc = "idle"
  /\ calls < MaxCalls
  /\ calls' = calls + 1
  /\ slides' = slides
  /\ slideCount' = 0
  /\ section' = 1
  /\ outcome' = None
  /\ pc' = "generateSlides"
  /\ UNCHANGED document
  /\ UNCHANGED dataVars

\* this.slides = []; let slideCount = 0;
BeginGenerateAllSlides ==
  /\ pc = "idle"
  /\ calls < MaxCalls
  /\ calls' = calls + 1
  /\ slides' = <<>>
  /\ slideCount' = 0
  /\ section' = 1
  /\ outcome' = None
  /\ pc' = "generateSlides"
  /\ UNCHANGED document
  /\ UNCHANGED dataVars

\* GenerateSection going on with the next section when a section throws
GenerateSection_continues ==
  /\ pc = "generateSlides"
  /\ LET r == generateSlides(SectionNames[section], processedData,
                             shipmentRecords(productData, random),
                             slideStructure[SectionNames[section]].slides)
     IN  /\ slides' = slides \o r.slides
         /\ slideCount' = slideCount + Len(r.slides)
         /\ IF section < Len(SectionNames)
              THEN section' = section + 1 /\ pc' = pc
              ELSE section' = section /\ pc' = "validation"
         /\ UNCHANGED outcome
  /\ processedData' =
       dataAfterGenerateSlides(SectionNames[section], processedData, random,
                               slideStructure[SectionNames[section]].slides, 1)
  /\ UNCHANGED << calls, document >>
  /\ UNCHANGED << productData, random, slideStructure, args, ret >>

\* const sectionSlides = await this.sections.X.generateSlides(...);
\* this.slides.push(...sectionSlides); slideCount += sectionSlides.length;
\* a throw inside generateSlides leaves generateAllSlides
GenerateSection ==
  /\ pc = "generateSlides"
  /\ LET r == generateSlides(SectionNames[section], processedData,
                             shipmentRecords(productData, random),
                             slideStructure[SectionNames[section]].slides)
     IN  IF r.ok
           THEN /\ slides' = slides \o r.slides
                /\ slideCount' = slideCount + Len(r.slides)
                /\ IF section < Len(SectionNames)
                     THEN section' = section + 1 /\ pc' = pc
                     ELSE section' = section /\ pc' = "validation"
                /\ UNCHANGED outcome
           ELSE /\ pc' = "idle"
                /\ outcome' = [kind |-> "slide_error", message |-> r.error]
                /\ UNCHANGED << slides, slideCount, section >>
  /\ processedData' =
       dataAfterGenerateSlides(SectionNames[section], processedData, random,
                               slideStructure[SectionNames[section]].slides, 1)
  /\ UNCHANGED << calls, document >>
  /\ UNCHANGED << productData, random, slideStructure, args, ret >>

\* Validation comparing the counter with 300
Validation_300 ==
  /\ pc = "validation"
  /\ outcome' =
       IF slideCount # 300
         THEN [kind |-> "structure_deviation",
               message |-> "STRUCTURE DEVIATION DETECTED: Expected 297 slides, got "
                             \o Digits(slideCount)]
         ELSE [kind |-> "returned", message |-> ""]
  /\ pc' = "idle"
  /\ UNCHANGED << slides, section, slideCount, calls, document >>
  /\ UNCHANGED dataVars

\* if (slideCount !== 297) throw ...; return this.slides
Validation ==
  /\ pc = "validation"
  /\ outcome' =
       IF slideCount # ExpectedSlides
         THEN [kind |-> "structure_deviation",
               message |-> "STRUCTURE DEVIATION DETECTED: Expected 297 slides, got "
                             \o Digits(slideCount)]
         ELSE \* return this.slides: the caller gets the array slides itself
              [kind |-> "returned", message |-> ""]
  /\ pc' = "idle"
  /\ UNCHANGED << slides, section, slideCount, calls, document >>
  /\ UNCHANGED dataVars

\* the document exportToHTML assembles: the slides' fragments in array order
\* and the placeholders it fills in
exportedDocument(data, slideList) ==
  [kind |-> "html",
   message |-> data.name \o " Trade Intelligence Report",
   fragments |-> [j \in 1..Len(slideList) |-> slideList[j].html.slide],
   totalSlides |-> Len(slideList)]

\* exportToHTML(outputPath), callable whenever no generation is running
ExportToHTML ==
  /\ pc = "idle"
  /\ document' = exportedDocument(productData, slides)
  /\ document' # document
  /\ UNCHANGED << slides, pc, section, slideCount, outcome, calls >>
  /\ UNCHANGED dataVars

\* generateProgressReport with a filter that leaves out the first id of the range
generateProgressReport_exclusiveRange(structure, slideList) ==
  [kind |-> "report",
   totalSlides |-> 297,
   generatedSlides |-> Len(slideList),
   sections |->
     [j \in 1..Len(SectionNames) |->
        LET range == structure[SectionNames[j]].range
            sectionSlides == {k \in 1..Len(slideList) :
                                slideList[k].id > range[1] /\ slideList[k].id <= range[2]}
        IN  [name |-> SectionNames[j],
             range |-> range,
             expected |-> range[2] - range[1] + 1,
             generated |-> Cardinality(sectionSlides),
             status |-> IF Cardinality(sectionSlides) = range[2] - range[1] + 1
                          THEN "Complete" ELSE "In Progress"]]]

\* the report of generateProgressReport: per section of the slide structure,
\* in key order, the slides in memory whose id lies in the section's range
generateProgressReport(structure, slideList) ==
  [kind |-> "report",
   totalSlides |-> 297,
   generatedSlides |-> Len(slideList),
   sections |->
     [j \in 1..Len(SectionNames) |->
        LET range == structure[SectionNames[j]].range
            sectionSlides == {k \in 1..Len(slideList) :
                                slideList[k].id >= range[1] /\ slideList[k].id <= range[2]}
        IN  [name |-> SectionNames[j],
             range |-> range,
             expected |-> range[2] - range[1] + 1,
             generated |-> Cardinality(sectionSlides),
             status |-> IF Cardinality(sectionSlides) = range[2] - range[1] + 1
                          THEN "Complete" ELSE "In Progress"]]]

\* generateProgressReport(), callable whenever no generation is running
GenerateProgressReport ==
  /\ pc = "idle"
  /\ ret' = generateProgressReport(slideStructure, slides)
  /\ ret' # ret
  /\ UNCHANGED << productData, random, processedData, args >>
  /\ UNCHANGED pc
  /\ UNCHANGED orchestratorVars

Next ==
  \/ BeginGenerateAllSlides
  \/ GenerateSection
  \/ Validation
  \/ ExportToHTML
  \/ GenerateProgressReport

Spec == Init /\ [][Next]_vars

(***************************************************************************)
(* DataProcessor: the steps of processAllData on arbitrary input            *)
(***************************************************************************)
NumberInputs(positive) == {Undefined, Num(0), Num(positive)}

\* totalValue, totalRecords and the unit of the entity values of the sample
\* data set
SampleTotalValue == 1245800000

SampleTotalRecords == 28456

SampleValueUnit == 1000000

\* small inputs in every combination, and the figures of the sample data set
\* with lists of every length
DataInputs ==
  { ProductData(tv, tr, li, le, ls, lb, scale) :
      tv \in NumberInputs(1000), tr \in NumberInputs(7),
      li \in -1..MaxList, le \in -1..MaxList,
      ls \in -1..MaxList, lb \in -1..MaxList, scale \in {0, 1} }
    \cup
  { ProductData(Num(SampleTotalValue), Num(SampleTotalRecords), li, le, ls, lb,
                SampleValueUnit) :
      li \in -1..MaxList, le \in -1..MaxList,
      ls \in -1..MaxList, lb \in -1..MaxList }

Unset == [k |-> "unset"]

InitData ==
  /\ productData \in DataInputs
  /\ random = AlternatingStream
  /\ processedData = [product |-> Unset, market |-> Unset, geography |-> Unset,
                      suppliers |-> Unset, buyers |-> Unset, shipments |-> Unset]
  /\ slideStructure = defineSlideStructure
  /\ slides = <<>>
  /\ pc = "processProductInfo"
  /\ section = 0
  /\ slideCount = 0
  /\ outcome = None
  /\ calls = 0
  /\ document = None
  /\ args = <<>>
  /\ ret = None

\* one property of the object literal processAllData returns
ProcessStep(step, field, value, next) ==
  /\ pc = step
  /\ processedData' = [processedData EXCEPT ![field] = value]
  /\ pc' = next
  /\ UNCHANGED << productData, random, args, ret >>
  /\ UNCHANGED orchestratorVars

ProcessProductInfo ==
  ProcessStep("processProductInfo", "product", processProductInfo(productData),
              "processMarketData")

ProcessMarketData ==
  ProcessStep("processMarketData", "market", processMarketData(productData),
              "processGeographicData")

ProcessGeographicData ==
  ProcessStep("processGeographicData", "geography",
              processGeographicData(productData), "processSupplierData")

ProcessSupplierData ==
  ProcessStep("processSupplierData", "suppliers", processSupplierData(productData),
              "processBuyerData")

ProcessBuyerData ==
  ProcessStep("processBuyerData", "buyers", processBuyerData(productData),
              "processShipmentData")

NextData ==
  \/ ProcessProductInfo
  \/ ProcessMarketData
  \/ ProcessGeographicData
  \/ ProcessSupplierData
  \/ ProcessBuyerData

SpecData == InitData /\ [][NextData]_vars

(***************************************************************************)
(* ShipmentRecordsSection.generateShipmentRecordsSlide on record lists of   *)
(* any length                                                               *)
(***************************************************************************)
InitSlide ==
  /\ productData = ProductData(Num(1000), Num(7), MaxList, MaxList, MaxList, MaxList, 1)
  /\ random \in Streams
  /\ processedData = [product |-> Unset, market |-> Unset, geography |-> Unset,
                      suppliers |-> Unset, buyers |-> Unset, shipments |-> Unset]
  /\ slideStructure = defineSlideStructure
  /\ slides = <<>>
  /\ pc = "call"
  /\ section = 0
  /\ slideCount = 0
  /\ outcome = None
  /\ calls = 0
  /\ document = None
  /\ \E count \in 0..MaxRecords, j \in 1..Ceil(MaxRecords, ShipmentsPerSlide) :
       args = [slideDef |-> slideStructure.shipmentRecords.slides[j],
               allRecords |-> ShipmentLoop(productData, random, count)]
  /\ ret = None

RenderShipmentSlide ==
  /\ pc = "call"
  /\ ret' = generateShipmentRecordsSlide(args.slideDef, args.allRecords)
  /\ pc' = "done"
  /\ UNCHANGED << productData, random, processedData, args >>
  /\ UNCHANGED orchestratorVars

NextSlide == RenderShipmentSlide

SpecSlide == InitSlide /\ [][NextSlide]_vars

(***************************************************************************)
(* DataProcessor.formatCurrency, formatNumber and formatPercentage on        *)
(* numbers and on missing values                                            *)
(***************************************************************************)
\* largest leading figure of the numbers handed to the formatters
MaxFigure == 9

\* missing values, the non-finite numbers, and fractions of either sign with
\* up to seven digits before and any number of digits after the point
FormatInputs ==
  {Undefined, Null, NaN, Infinity, NegInfinity}
    \cup { Rat(f * m, d) : f \in (-MaxFigure)..MaxFigure, m \in {1, 1234, 123456},
                           d \in {1, 2, 3, 20, 2000} }

InitFormat ==
  /\ productData = ProductData(Num(1000), Num(7), MaxList, MaxList, MaxList, MaxList, 1)
  /\ random = AlternatingStream
  /\ processedData = [product |-> Unset, market |-> Unset, geography |-> Unset,
                      suppliers |-> Unset, buyers |-> Unset, shipments |-> Unset]
  /\ slideStructure = defineSlideStructure
  /\ slides = <<>>
  /\ pc = "call"
  /\ section = 0
  /\ slideCount = 0
  /\ outcome = None
  /\ calls = 0
  /\ document = None
  /\ args \in FormatInputs
  /\ ret = None

\* the three formatters applied to the same value
FormatValue ==
  /\ pc = "call"
  /\ ret' = [kind |-> "formatted",
             currency |-> formatCurrency(args),
             number |-> formatNumber(args),
             percentage |-> formatPercentage(args)]
  /\ pc' = "done"
  /\ UNCHANGED << productData, random, processedData, args >>
  /\ UNCHANGED orchestratorVars

NextFormat == FormatValue

SpecFormat == InitFormat /\ [][NextFormat]_vars

(***************************************************************************)
(* DataProcessor.generateShipmentRecords on supplier and buyer lists of any  *)
(* length, missing lists included, under every random stream                *)
(***************************************************************************)
InitRecords ==
  /\ \E ls \in -1..MaxList, lb \in -1..MaxList :
       productData = ProductData(Num(1000), Num(7), MaxList, MaxList, ls, lb, 1)
  /\ random \in Streams
  /\ processedData = [product |-> Unset, market |-> Unset, geography |-> Unset,
                      suppliers |-> Unset, buyers |-> Unset, shipments |-> Unset]
  /\ slideStructure = defineSlideStructure
  /\ slides = <<>>
  /\ pc = "call"
  /\ section = 0
  /\ slideCount = 0
  /\ outcome = None
  /\ calls = 0
  /\ document = None
  /\ args = <<>>
  /\ ret = None

GenerateShipmentRecords ==
  /\ pc = "call"
  /\ ret' = [kind |-> "records", value |-> generateShipmentRecords(productData, random)]
  /\ pc' = "done"
  /\ UNCHANGED << productData, random, processedData, args >>
  /\ UNCHANGED orchestratorVars

NextRecords == GenerateShipmentRecords

SpecRecords == InitRecords /\ [][NextRecords]_vars

(***************************************************************************)
(* generateSlides(slideDefinitions) of each of the six sections on a single  *)
(* plan entry of any type                                                   *)
(***************************************************************************)
\* plan entries taken from the head of each section's list
MaxBase == 2

\* a type no section has a case for, and the types of the plan
KindInputs ==
  {"unknown_kind"}
    \cup UNION { { defineSlideStructure[name].slides[j].type :
                     j \in 1..Len(defineSlideStructure[name].slides) } :
                 name \in DOMAIN defineSlideStructure }

\* the types an entry of the section is tried under: its own type and every
\* type the section has no case for (the section without a switch: every type)
TypesTried(name, slideDef) ==
  { type \in KindInputs : \/ name = "shipmentRecords"
                          \/ type \notin SectionTypes(name)
                          \/ type = slideDef.type }

SectionInputs ==
  UNION { UNION { { [sectionName |-> name,
                     slideDefinitions |->
                       << [defineSlideStructure[name].slides[j] EXCEPT !.type = type] >>] :
                      type \in TypesTried(name, defineSlideStructure[name].slides[j]) } :
                  j \in 1..Min(MaxBase, Len(defineSlideStructure[name].slides)) } :
          name \in DOMAIN defineSlideStructure }

InitSection ==
  /\ productData = ProductData(Num(1000), Num(7), PlanMaxRank, PlanMaxRank,
                               PlanMaxRank, PlanMaxRank, 1)
  /\ random = AlternatingStream
  /\ processedData = processAllData(productData, random)
  /\ slideStructure = defineSlideStructure
  /\ slides = <<>>
  /\ pc = "call"
  /\ section = 0
  /\ slideCount = 0
  /\ outcome = None
  /\ calls = 0
  /\ document = None
  /\ args \in SectionInputs
  /\ ret = None

\* section.generateSlides(slideDefinitions)
GenerateSlides ==
  /\ pc = "call"
  /\ ret' = generateSlides(args.sectionName, processedData,
                           shipmentRecords(productData, random), args.slideDefinitions)
  /\ processedData' =
       dataAfterGenerateSlides(args.sectionName, processedData, random,
                               args.slideDefinitions, 1)
  /\ pc' = "done"
  /\ UNCHANGED << productData, random, args >>
  /\ UNCHANGED orchestratorVars

NextSection == GenerateSlides

SpecSection == InitSection /\ [][NextSection]_vars

(***************************************************************************)
(* generatePresentation: one run of the driver, from the constructors to    *)
(* the returned result                                                      *)
(***************************************************************************)
\* lengths of the four ranked lists: each list long enough for the plan or
\* one entry short, longer lists, and lists of a single entry
RunLengths ==
  [1..4 -> {PlanMaxRank - 1, PlanMaxRank}]
    \cup { [j \in 1..4 |-> n] : n \in (PlanMaxRank + 1)..(PlanMaxRank + MaxExtra) }
    \cup { [j \in 1..4 |-> 1] }

\* new DataProcessor(data); new MainOrchestrator(data)
InitRun ==
  /\ \E l \in RunLengths :
       productData = ProductData(Num(1000), Num(7), l[1], l[2], l[3], l[4], 1)
  /\ random \in {AlternatingStream, [j \in 1..RandPeriod |-> 0]}
  /\ processedData = processAllData(productData, random)
  /\ slideStructure = defineSlideStructure
  /\ slides = <<>>
  /\ pc = "try"
  /\ section = 0
  /\ slideCount = 0
  /\ outcome = None
  /\ calls = 0
  /\ document = None
  /\ args = <<>>
  /\ ret = None

\* const slides = await orchestrator.generateAllSlides();
RunGenerateAllSlides ==
  /\ pc = "try"
  /\ calls' = calls + 1
  /\ slides' = <<>>
  /\ slideCount' = 0
  /\ section' = 1
  /\ outcome' = None
  /\ pc' = "generateSlides"
  /\ UNCHANGED document
  /\ UNCHANGED dataVars

\* await orchestrator.exportToHTML(outputPath), reached when generateAllSlides
\* returned
RunExportToHTML ==
  /\ pc = "idle"
  /\ outcome.kind = "returned"
  /\ document' = exportedDocument(productData, slides)
  /\ pc' = "exported"
  /\ UNCHANGED << slides, section, slideCount, outcome, calls >>
  /\ UNCHANGED dataVars

\* await fs.writeFile(summaryPath, ...); return { success: true, ... }
RunWriteSummary ==
  /\ pc = "exported"
  /\ ret' = [kind |-> "result", success |-> TRUE, error |-> "",
             summary |-> [totalSlides |-> Len(slides)], totalSlides |-> Len(slides)]
  /\ pc' = "done"
  /\ UNCHANGED << productData, random, processedData, args >>
  /\ UNCHANGED orchestratorVars

\* a catch block that exports whatever slides there are before returning
RunCatch_exportsAnyway ==
  /\ pc = "idle"
  /\ outcome.kind \in {"slide_error", "structure_deviation"}
  /\ ret' = [kind |-> "result", success |-> FALSE, error |-> outcome.message,
             summary |-> Undefined, totalSlides |-> 0]
  /\ document' = exportedDocument(productData, slides)
  /\ pc' = "done"
  /\ UNCHANGED << productData, random, processedData, args >>
  /\ UNCHANGED << slideStructure, slides, section, slideCount, outcome, calls >>

\* catch (error) { return { success: false, error: error.message }; }
RunCatch ==
  /\ pc = "idle"
  /\ outcome.kind \in {"slide_error", "structure_deviation"}
  /\ ret' = [kind |-> "result", success |-> FALSE, error |-> outcome.message,
             summary |-> Undefined, totalSlides |-> 0]
  /\ pc' = "done"
  /\ UNCHANGED << productData, random, processedData, args >>
  /\ UNCHANGED orchestratorVars

NextRun ==
  \/ RunGenerateAllSlides
  \/ GenerateSection
  \/ Validation
  \/ RunExportToHTML
  \/ RunWriteSummary
  \/ RunCatch

SpecRun == InitRun /\ [][NextRun]_vars

(***************************************************************************)
(* Two independent constructions and runs on the same input, each with its  *)
(* own outcomes of Math.random()                                            *)
(***************************************************************************)
\* generateAllSlides as a function of the processed data and the records:
\* the sections from the k-th on, done the slides of the sections before
RECURSIVE SectionsFrom(_, _, _, _)
SectionsFrom(data, allRecords, k, done) ==
  IF k > Len(SectionNames)
    THEN IF Len(done) # ExpectedSlides
           THEN [ok |-> FALSE, slides |-> done,
                 error |-> "STRUCTURE DEVIATION DETECTED: Expected 297 slides, got "
                             \o Digits(Len(done))]
           ELSE [ok |-> TRUE, slides |-> done, error |-> ""]
    ELSE LET r == generateSlides(SectionNames[k], data, allRecords,
                                 defineSlideStructure[SectionNames[k]].slides)
         IN  IF r.ok
               THEN SectionsFrom(data, allRecords, k + 1, done \o r.slides)
               ELSE [ok |-> FALSE, slides |-> done, error |-> r.error]

\* the processed data of a DataProcessor whose record array is records
ProcessedWith(data, records) ==
  [product |-> processProductInfo(data),
   market |-> processMarketData(data),
   geography |-> processGeographicData(data),
   suppliers |-> processSupplierData(data),
   buyers |-> processBuyerData(data),
   shipments |-> [totalShipments |-> Len(records),
                  shipmentRecords |-> ArrayRef(records),
                  shipmentsPerSlide |-> ShipmentsPerSlide,
                  totalSlides |-> Ceil(Len(records), ShipmentsPerSlide)]]

\* what a construction and its run leave: the records, how generateAllSlides
\* ended, and the (id, type, title) of the slides in memory
RunOutcome(records, run) ==
  [records |-> records,
   ok |-> run.ok,
   error |-> run.error,
   slides |-> [j \in 1..Len(run.slides) |->
                 [id |-> run.slides[j].id, type |-> run.slides[j].type,
                  title |-> run.slides[j].title]]]

\* generateAllSlides() of an orchestrator whose DataProcessor built records
RunOn(data, records) ==
  RunOutcome(records, SectionsFrom(ProcessedWith(data, records), records, 1, <<>>))

\* new MainOrchestrator(data) followed by generateAllSlides(), under the
\* outcomes rnd
ConstructAndRun(data, rnd) == RunOn(data, shipmentRecords(data, rnd))

\* streams of equal outcomes and a stream of changing outcomes
TwinStreams ==
  { [j \in 1..RandPeriod |-> 0], [j \in 1..RandPeriod |-> RandLevels - 1],
    AlternatingStream }

\* lengths of topSuppliers and topBuyers: MaxList entries between them, empty
\* lists, missing lists (-1), and lists long enough for the plan
TwinLengths ==
  { <<l, MaxList - l>> : l \in 0..MaxList }
    \cup { <<-1, -1>>, <<0, 0>>, <<MaxList, MaxList>>, <<PlanMaxRank, PlanMaxRank>> }

InitTwin ==
  /\ \E l \in TwinLengths :
       productData = ProductData(Num(1000), Num(7),
                       IF l[1] = PlanMaxRank THEN PlanMaxRank ELSE MaxList,
                       IF l[1] = PlanMaxRank THEN PlanMaxRank ELSE MaxList,
                       l[1], l[2], 1)
  /\ random \in TwinStreams
  /\ processedData = [product |-> Unset, market |-> Unset, geography |-> Unset,
                      suppliers |-> Unset, buyers |-> Unset, shipments |-> Unset]
  /\ slideStructure = defineSlideStructure
  /\ slides = <<>>
  /\ pc = "call"
  /\ section = 0
  /\ slideCount = 0
  /\ outcome = None
  /\ calls = 0
  /\ document = None
  /\ args \in TwinStreams
  /\ ret = None

\* the same input constructed and run twice, once under the outcomes random
\* and once under the outcomes args
ConstructAndRunTwice ==
  /\ pc = "call"
  /\ ret' = [kind |-> "twin",
             first |-> ConstructAndRun(productData, random),
             second |-> ConstructAndRun(productData, args)]
  /\ pc' = "done"
  /\ UNCHANGED << productData, random, processedData, args >>
  /\ UNCHANGED orchestratorVars

NextTwin == ConstructAndRunTwice

SpecTwin == InitTwin /\ [][NextTwin]_vars

(***************************************************************************)
(* generateSupplierCompaniesData / generateImporterCompaniesData and their  *)
(* tables, for every country of the ranked lists                            *)
(***************************************************************************)
InitCompanies ==
  /\ \E l \in (0..MaxList) \cup {PlanMaxRank} :
       productData = ProductData(Num(1000), Num(7), PlanMaxRank, PlanMaxRank, l, l, 1)
  /\ random \in Streams
  /\ processedData = [product |-> processProductInfo(productData),
                      market |-> processMarketData(productData),
                      geography |-> processGeographicData(productData),
                      suppliers |-> processSupplierData(productData),
                      buyers |-> processBuyerData(productData),
                      shipments |-> Unset]
  /\ slideStructure = defineSlideStructure
  /\ slides = <<>>
  /\ pc = "call"
  /\ section = 0
  /\ slideCount = 0
  /\ outcome = None
  /\ calls = 0
  /\ document = None
  /\ args \in [table : {"supplierCompanies", "importerCompanies"},
                countryRank : 1..PlanMaxRank]
  /\ ret = None

\* const companies = this.generate...CompaniesData(country);
\* const companiesTable = this.generate...CompaniesTable(companies);
GenerateCompaniesTable ==
  /\ pc = "call"
  /\ LET r == IF args.table = "supplierCompanies"
                THEN generateSupplierCompaniesData(processedData,
                       processedData.geography.importingCountries[(args.countryRank - 1) + 1],
                       random)
                ELSE generateImporterCompaniesData(processedData,
                       processedData.geography.exportingCountries[(args.countryRank - 1) + 1],
                       random)
     IN  /\ ret' = [kind |-> "table", companies |-> r.value,
                    rows |-> CompaniesTableRows(r.value)]
         /\ processedData' = r.data
  /\ pc' = "done"
  /\ UNCHANGED << productData, random, args >>
  /\ UNCHANGED orchestratorVars

NextCompanies == GenerateCompaniesTable

SpecCompanies == InitCompanies /\ [][NextCompanies]_vars

(***************************************************************************)
(* The navigation script of the exported document, running in a page with    *)
(* any number of slides                                                     *)
(***************************************************************************)
\* largest number of slides of the small pages
MaxShown == 12

\* the page as the browser parsed it: no slide carries the class active, the
\* counter reads "1 / n" and no button is disabled; currentSlide is the
\* script's variable
LoadedPage(n) ==
  [kind |-> "page", totalSlides |-> n, currentSlide |-> 0, active |-> {},
   slideCounter |-> "1 / " \o Digits(n), prevDisabled |-> FALSE, nextDisabled |-> FALSE]

\* showSlide leaving the class active on the slide shown before
showSlide_keepsActive(page, n) ==
  LET shown == (n + page.totalSlides) % page.totalSlides
  IN  [page EXCEPT !.active = page.active \cup {shown},
                   !.currentSlide = shown,
                   !.slideCounter = Digits(shown + 1) \o " / " \o Digits(page.totalSlides),
                   !.prevDisabled = (shown = 0),
                   !.nextDisabled = (shown = page.totalSlides - 1)]

\* function showSlide(n), on a page with at least one slide
showSlide(page, n) ==
  LET shown == (n + page.totalSlides) % page.totalSlides
  IN  [page EXCEPT !.active = (page.active \ {page.currentSlide}) \cup {shown},
                   !.currentSlide = shown,
                   !.slideCounter = Digits(shown + 1) \o " / " \o Digits(page.totalSlides),
                   !.prevDisabled = (shown = 0),
                   !.nextDisabled = (shown = page.totalSlides - 1)]

\* nextSlide without the test currentSlide < totalSlides - 1
nextSlide_unguarded(page) ==
  IF page.totalSlides > 0 THEN showSlide(page, page.currentSlide + 1) ELSE page

\* function nextSlide()
nextSlide(page) ==
  IF page.currentSlide < page.totalSlides - 1
    THEN showSlide(page, page.currentSlide + 1)
    ELSE page

\* function prevSlide()
prevSlide(page) ==
  IF page.currentSlide > 0 THEN showSlide(page, page.currentSlide - 1) ELSE page

InitNavigation ==
  /\ productData = ProductData(Num(1000), Num(7), MaxList, MaxList, MaxList, MaxList, 1)
  /\ random = AlternatingStream
  /\ processedData = [product |-> Unset, market |-> Unset, geography |-> Unset,
                      suppliers |-> Unset, buyers |-> Unset, shipments |-> Unset]
  /\ slideStructure = defineSlideStructure
  /\ slides = <<>>
  /\ pc = "load"
  /\ section = 0
  /\ slideCount = 0
  /\ outcome = None
  /\ calls = 0
  /\ \E n \in (0..MaxShown) \cup {ExpectedSlides} : document = LoadedPage(n)
  /\ args = "load"
  /\ ret = None

\* the script runs to its end: the listeners are registered and showSlide(0)
\* is called; slides[0] of a page without slides is undefined, and the call
\* throws after the listeners were registered
RunScript ==
  /\ pc = "load"
  /\ IF document.totalSlides > 0
       THEN document' = showSlide(document, 0) /\ pc' = "ready"
       ELSE document' = document /\ pc' = "error"
  /\ UNCHANGED << slideStructure, slides, section, slideCount, outcome, calls >>
  /\ UNCHANGED dataVars

\* a click on Next; a disabled button dispatches no click
ClickNext ==
  /\ pc \in {"ready", "error"}
  /\ ~document.nextDisabled
  /\ args' = "click nextBtn"
  /\ document' = nextSlide(document)
  /\ UNCHANGED << productData, random, processedData, ret >>
  /\ UNCHANGED << slideStructure, slides, pc, section, slideCount, outcome, calls >>

\* a click on Previous
ClickPrev ==
  /\ pc \in {"ready", "error"}
  /\ ~document.prevDisabled
  /\ args' = "click prevBtn"
  /\ document' = prevSlide(document)
  /\ UNCHANGED << productData, random, processedData, ret >>
  /\ UNCHANGED << slideStructure, slides, pc, section, slideCount, outcome, calls >>

\* the keydown listener of the document
KeyDown ==
  /\ pc \in {"ready", "error"}
  /\ \E key \in {"ArrowRight", "ArrowLeft", "Enter"} :
       /\ args' = "keydown " \o key
       /\ document' = CASE key = "ArrowRight" -> nextSlide(document)
                         [] key = "ArrowLeft" -> prevSlide(document)
                         [] OTHER -> document
  /\ UNCHANGED << productData, random, processedData, ret >>
  /\ UNCHANGED << slideStructure, slides, pc, section, slideCount, outcome, calls >>

NextNavigation ==
  \/ RunScript
  \/ ClickNext
  \/ ClickPrev
  \/ KeyDown

SpecNavigation == InitNavigation /\ [][NextNavigation]_vars

(***************************************************************************)
(* Properties                                                               *)
(***************************************************************************)
SectionCount(name) == Len(slideStructure[name].slides)

\* the plan entries of all sections, in declared section order
PlanEntries ==
  slideStructure.foundation.slides \o slideStructure.importingCountries.slides
    \o slideStructure.exportingCountries.slides \o slideStructure.supplierBuyer.slides
    \o slideStructure.pricing.slides \o slideStructure.shipmentRecords.slides

\* C1: whatever the product data, the six sections of the slide plan hold
\* 8, 15, 16, 23, 1 and 234 entries, 297 in total.
C1_PlanHas297Entries ==
  /\ << SectionCount("foundation"), SectionCount("importingCountries"),
        SectionCount("exportingCountries"), SectionCount("supplierBuyer"),
        SectionCount("pricing"), SectionCount("shipmentRecords") >>
       = << 8, 15, 16, 23, 1, 234 >>
  /\ SectionCount("foundation") + SectionCount("importingCountries")
       + SectionCount("exportingCountries") + SectionCount("supplierBuyer")
       + SectionCount("pricing") + SectionCount("shipmentRecords") = 297

\* a constructed orchestrator whose input is not the full ten-entry data set
C1_Witness ==
  /\ calls = 0
  /\ SectionCount("shipmentRecords") = 234
  /\ Len(processedData.suppliers.topSuppliers) = PlanMaxRank - 1

DeclaredRanges ==
  [foundation |-> <<1, 8>>, importingCountries |-> <<9, 23>>,
   exportingCountries |-> <<24, 39>>, supplierBuyer |-> <<40, 62>>,
   pricing |-> <<63, 63>>, shipmentRecords |-> <<67, 300>>]

SectionSet == {SectionNames[j] : j \in 1..Len(SectionNames)}

\* the ids that occur in the plan
PlanIds ==
  UNION { {slideStructure[name].slides[j].id : j \in 1..Len(slideStructure[name].slides)} :
            name \in SectionSet }

\* C2: in every section the entry ids are range[0], range[0]+1, ..., range[1]
\* in this order, the ranges are those declared, no two sections' ranges
\* overlap and no id occurs twice in the plan.
C2_SectionsAreContiguousRanges ==
  /\ \A name \in SectionSet :
       LET sec == slideStructure[name]
       IN  /\ sec.range = DeclaredRanges[name]
           /\ Len(sec.slides) = sec.range[2] - sec.range[1] + 1
           /\ \A j \in 1..Len(sec.slides) : sec.slides[j].id = sec.range[1] + (j - 1)
  /\ \A a, b \in SectionSet :
       a # b => \/ slideStructure[a].range[2] < slideStructure[b].range[1]
                \/ slideStructure[b].range[2] < slideStructure[a].range[1]
  /\ Cardinality(PlanIds) = Len(PlanEntries)

\* a constructed orchestrator whose ranked sections start and end where declared
C2_Witness ==
  /\ calls = 0
  /\ slideStructure.importingCountries.slides[15].id = 23
  /\ slideStructure.shipmentRecords.slides[1].id = 67
  /\ slideStructure.shipmentRecords.slides[234].id = 300

\* C3: generateAllSlides settles its result in one place only, after the
\* sixth section, where the counter holds the number of slides the six
\* generators returned: it returns the slide list when the counter is 297
\* and throws the structure-deviation error otherwise.
C3_CountComparedOnceAtEnd ==
  [][ (outcome' # outcome /\ outcome'.kind \in {"returned", "structure_deviation"})
        => /\ pc = "validation"
           /\ section = Len(SectionNames)
           /\ slideCount = Len(slides)
           /\ pc' = "idle"
           /\ slides' = slides
           /\ IF slideCount = 297
                THEN outcome'.kind = "returned" /\ Len(slides') = 297
                ELSE outcome'.kind = "structure_deviation" ]_vars

\* a call that returned its 297 slides
C3_Witness ==
  /\ outcome.kind = "returned"
  /\ slideCount = 297
  /\ Len(slides) = 297

\* C4: the slides a successful generateAllSlides returns, and the fragments
\* exportToHTML then writes, are in strictly ascending id order, and the
\* i-th slide has the id and type of the i-th plan entry: nothing is skipped
\* or rendered twice.
C4_SlidesFollowPlanOrder ==
  outcome.kind = "returned" =>
    LET plan == PlanEntries
    IN  /\ Len(slides) = Len(plan)
        /\ \A j \in 1..Len(slides) :
             /\ slides[j].id = plan[j].id
             /\ slides[j].type = plan[j].type
        /\ \A j \in 1..(Len(slides) - 1) : slides[j].id < slides[j + 1].id
        /\ (document.kind = "html" /\ document.totalSlides = Len(slides)) =>
             /\ Len(document.fragments) = Len(plan)
             /\ \A j \in 1..Len(plan) : document.fragments[j] = plan[j].id

\* a successful run whose document has been exported
C4_Witness ==
  /\ outcome.kind = "returned"
  /\ document.kind = "html"
  /\ document.totalSlides = 297
  /\ slides[64].id = 67
  /\ document.fragments[297] = 300

\* records[recordStart-1 .. recordEnd) of the shipment plan entries lo..hi,
\* concatenated in id order
RECURSIVE ConcatBatches(_, _, _, _)
ConcatBatches(defs, records, lo, hi) ==
  IF lo > hi THEN <<>>
  ELSE IF lo = hi THEN Slice(records, defs[lo].recordStart - 1, defs[lo].recordEnd)
  ELSE LET mid == (lo + hi) \div 2
       IN  ConcatBatches(defs, records, lo, mid)
             \o ConcatBatches(defs, records, mid + 1, hi)

\* the record ids in the tables of the slides lo..hi, concatenated in slide
\* order
RECURSIVE ConcatTableIds(_, _, _)
ConcatTableIds(slideList, lo, hi) ==
  IF lo > hi THEN <<>>
  ELSE IF lo = hi
    THEN (IF slideList[lo].type = "shipment_records"
            THEN slideList[lo].html.content.table ELSE <<>>)
  ELSE LET mid == (lo + hi) \div 2
       IN  ConcatTableIds(slideList, lo, mid) \o ConcatTableIds(slideList, mid + 1, hi)

\* C5: the batches of the shipment plan entries, taken in id order, are the
\* Aggregator's records 1..T with nothing repeated or left out, each batch
\* holding 10 records (the last one the remainder when T is no multiple of
\* 10); the tables of a finished run show exactly these records.
C5_BatchesPartitionRecords ==
  pc = "idle" =>
    LET defs == slideStructure.shipmentRecords.slides
        records == shipmentRecords(productData, random)
        T == Len(records)
    IN  /\ ConcatBatches(defs, records, 1, Len(defs)) = records
        /\ \A j \in 1..T : records[j].id = j
        /\ \A n \in 1..Len(defs) :
             Len(Slice(records, defs[n].recordStart - 1, defs[n].recordEnd))
               = IF n < Len(defs) \/ T % 10 = 0 THEN 10 ELSE T % 10
        /\ outcome.kind = "returned" =>
             ConcatTableIds(slides, 1, Len(slides)) = [j \in 1..T |-> j]

\* a finished run: the last shipment slide shows the records up to the last
C5_Witness ==
  /\ outcome.kind = "returned"
  /\ processedData.shipments.totalShipments = 2340
  /\ slides[297].html.content.table[10] = 2340

\* C6: the shipment section has ceil(T / batchSize) entries, as many as the
\* Aggregator's shipments.totalSlides (234), entry i covers records
\* i*batchSize+1 .. min((i+1)*batchSize, T), and no entry ends after T.
C6_ShipmentEntriesMatchAggregator ==
  LET defs == slideStructure.shipmentRecords.slides
      shipments == processedData.shipments
      T == shipments.totalShipments
      B == shipments.shipmentsPerSlide
  IN  /\ T = shipments.shipmentRecords.length
      /\ shipments.totalSlides = (T + B - 1) \div B
      /\ Len(defs) = shipments.totalSlides
      /\ Len(defs) = 234
      /\ \A j \in 1..Len(defs) :
           /\ defs[j].recordStart = (j - 1) * B + 1
           /\ defs[j].recordEnd = Min(((j - 1) + 1) * B, T)
           /\ defs[j].recordEnd <= T

\* a constructed orchestrator with all 2340 records and 10 per slide
C6_Witness ==
  /\ calls = 0
  /\ processedData.shipments.totalShipments = 2340
  /\ processedData.shipments.shipmentsPerSlide = 10
  /\ slideStructure.shipmentRecords.slides[234].recordEnd = 2340

\* the number of records in the slice of the slide under evaluation
SliceSize ==
  Max(0, Min(args.slideDef.recordEnd, Len(args.allRecords))
           - (args.slideDef.recordStart - 1))

RECURSIVE QuantitySum(_, _, _)
QuantitySum(records, from, n) ==
  IF n = 0 THEN 0
  ELSE QuantitySum(records, from, n - 1) + records[from + n - 1].quantity.n

\* C7: a shipment slide whose slice holds k records, 1 <= k < 10, renders,
\* and its summary counts k records and averages the quantity over k.
C7_ShortBatchRenders ==
  (pc = "done" /\ SliceSize >= 1 /\ SliceSize < ShipmentsPerSlide) =>
    /\ ret.ok
    /\ ret.slide.id = args.slideDef.id
    /\ ret.slide.html.content.summary.recordCount = SliceSize
    /\ Len(ret.slide.html.content.table) = SliceSize
    /\ ret.slide.html.content.summary.avgQuantity
         = formatNumber(Rat(QuantitySum(args.allRecords, args.slideDef.recordStart,
                                        SliceSize), SliceSize))

\* the third slide of 25 records was rendered: it holds records 21..25
C7_Witness ==
  /\ pc = "done"
  /\ Len(args.allRecords) = 25
  /\ args.slideDef.recordStart = 21
  /\ SliceSize = 5
  /\ ret.ok
  /\ ret.slide.html.content.summary.recordCount = 5

RanksFollowInput(output, input, key) ==
  /\ Len(output) = Len(OrEmpty(input))
  /\ {output[j].rank : j \in 1..Len(output)} = 1..Len(output)
  /\ \A j \in 1..Len(output) :
       /\ output[j].rank = j
       /\ output[j][key] = OrEmpty(input)[j][key]
       /\ output[j].rawValue = OrEmpty(input)[j].value

\* C8: each ranked list of the NormalizedView has the length and order of
\* its input list, and its ranks are 1..length: rank k comes from input
\* element k-1 (counted from 0).
C8_RanksAreContiguous ==
  /\ processedData.geography # Unset =>
       /\ RanksFollowInput(processedData.geography.importingCountries,
                           productData.importingCountries, "country")
       /\ RanksFollowInput(processedData.geography.exportingCountries,
                           productData.exportingCountries, "country")
  /\ processedData.suppliers # Unset =>
       RanksFollowInput(processedData.suppliers.topSuppliers,
                        productData.topSuppliers, "name")
  /\ processedData.buyers # Unset =>
       RanksFollowInput(processedData.buyers.topBuyers, productData.topBuyers, "name")

\* all four lists processed, with lists of different lengths among them
C8_Witness ==
  /\ pc = "processShipmentData"
  /\ Len(processedData.geography.importingCountries) = MaxList
  /\ Len(processedData.geography.exportingCountries) = 1
  /\ Len(processedData.suppliers.topSuppliers) = MaxList
  /\ processedData.suppliers.topSuppliers[MaxList].rank = MaxList
  /\ Len(processedData.buyers.topBuyers) = 0

ShareGuarded(entities, totalValue) ==
  \A j \in 1..Len(entities) :
    /\ IsFinite(entities[j].rawShare)
    /\ totalValue = Num(0) =>
         entities[j].rawShare = Num(0) /\ entities[j].share = "0.0%"
    /\ (totalValue.k = "number" /\ totalValue.n > 0) =>
         entities[j].rawShare
           = LET q == Rat(entities[j].rawValue.n, totalValue.n)
             IN  Rat(q.n * 100, q.d)

\* C9: the share of a supplier or buyer is value / totalValue * 100, it is 0
\* when totalValue is 0, and it is never NaN or Infinity.
C9_ShareNeverDividesByZero ==
  /\ processedData.suppliers # Unset =>
       (productData.totalValue # Undefined =>
          ShareGuarded(processedData.suppliers.topSuppliers, productData.totalValue))
  /\ processedData.buyers # Unset =>
       (productData.totalValue # Undefined =>
          ShareGuarded(processedData.buyers.topBuyers, productData.totalValue))

\* C10: avgTransactionValue is totalValue / totalRecords when totalRecords
\* is positive; when totalRecords is 0 or missing the divisor is 1, so the
\* amount is finite.
C10_AvgTransactionValueGuarded ==
  processedData.market # Unset =>
    LET tv == IF productData.totalValue.k = "number" THEN productData.totalValue.n ELSE 0
        tr == IF productData.totalRecords.k = "number" /\ productData.totalRecords.n > 0
                THEN productData.totalRecords.n ELSE 1
    IN  /\ processedData.market.avgTransactionValue = formatCurrency(Rat(tv, tr))
        /\ processedData.market.avgTransactionValue \notin {"$Infinity", "-$Infinity"}

\* market data computed for 1000 over no records, and the amount is $1,000
C10_Witness ==
  /\ processedData.market # Unset
  /\ productData.totalValue = Num(1000)
  /\ productData.totalRecords = Num(0)
  /\ processedData.market.avgTransactionValue = "$1,000"

\* C11 as stated: for totalValue = 1245800000 and totalRecords = 28456 the
\* market block's avgTransactionValue reads $43,776.
C11_AvgTransactionValueIs43776 ==
  (/\ processedData.market # Unset
   /\ productData.totalValue = Num(SampleTotalValue)
   /\ productData.totalRecords = Num(SampleTotalRecords))
    => processedData.market.avgTransactionValue = "$43,776"

\* C11, amended: for totalValue = 1245800000 and totalRecords = 28456 the
\* quotient is 43779.87..., and avgTransactionValue, rounded to whole dollars,
\* reads $43,780.
C11_AvgTransactionValueIs43780 ==
  (/\ processedData.market # Unset
   /\ productData.totalValue = Num(SampleTotalValue)
   /\ productData.totalRecords = Num(SampleTotalRecords))
    => processedData.market.avgTransactionValue = "$43,780"

\* the market block computed from the sample figures
C11_Witness ==
  /\ processedData.market # Unset
  /\ productData.totalValue = Num(1245800000)
  /\ productData.totalRecords = Num(28456)
  /\ processedData.market.totalValue = "$1,245,800,000"
  /\ processedData.market.totalRecords = "28,456"

\* C12: a supplier (or buyer) with value 245000000 against totalValue
\* 1245800000 gets the share text 19.7%.
C12_ShareIs19Point7 ==
  LET Shares(entities) ==
        \A j \in 1..Len(entities) :
          entities[j].rawValue = Num(245000000) => entities[j].share = "19.7%"
  IN  productData.totalValue = Num(SampleTotalValue) =>
        /\ processedData.suppliers # Unset =>
             Shares(processedData.suppliers.topSuppliers)
        /\ processedData.buyers # Unset => Shares(processedData.buyers.topBuyers)

\* the supplier list of the sample figures processed, its first entry worth
\* 245000000
C12_Witness ==
  /\ productData.totalValue = Num(1245800000)
  /\ processedData.suppliers # Unset
  /\ Len(processedData.suppliers.topSuppliers) = MaxList
  /\ processedData.suppliers.topSuppliers[1].rawValue = Num(245000000)
  /\ processedData.suppliers.topSuppliers[1].value = "$245,000,000"

\* C13: the three formatters give for undefined and for null what they give
\* for 0, namely $0, 0 and 0.0%, and they give a text for every number.
C13_FormattersTotalOnMissing ==
  pc = "done" =>
    /\ ret.kind = "formatted"
    /\ (args \in {Undefined, Null, Num(0)}) =>
         /\ ret.currency = "$0"
         /\ ret.number = "0"
         /\ ret.percentage = "0.0%"
    /\ Len(ret.currency) >= 2 /\ Len(ret.number) >= 1 /\ Len(ret.percentage) >= 4

\* null has been formatted
C13_Witness ==
  /\ pc = "done"
  /\ args = Null
  /\ ret.currency = "$0"

C15_RoundRobin ==
  pc = "done" =>
    LET suppliers == OrEmpty(productData.topSuppliers)
        buyers == OrEmpty(productData.topBuyers)
        records == ret.value
    IN  /\ Len(suppliers) > 0 =>
             /\ \A j \in 1..Len(records) :
                  LET e == suppliers[((j - 1) % Len(suppliers)) + 1]
                  IN  records[j].supplier = e.name /\ records[j].supplierCountry = e.country
             /\ \A l \in 1..Len(suppliers) :
                  \E j \in 1..Len(records) : records[j].supplier = suppliers[l].name
        /\ Len(buyers) > 0 =>
             /\ \A j \in 1..Len(records) :
                  LET e == buyers[((j - 1) % Len(buyers)) + 1]
                  IN  records[j].buyer = e.name /\ records[j].buyerCountry = e.country
             /\ \A l \in 1..Len(buyers) :
                  \E j \in 1..Len(records) : records[j].buyer = buyers[l].name

\* records generated from lists of different lengths: the suppliers have
\* started their second round, the single buyer is in every record
C15_Witness ==
  /\ pc = "done"
  /\ Len(OrEmpty(productData.topSuppliers)) = MaxList
  /\ Len(OrEmpty(productData.topBuyers)) = 1
  /\ ret.value[1].supplier = "Bristol-Myers Squibb"
  /\ ret.value[2].supplier = "Pfizer Inc"
  /\ ret.value[MaxList + 1].supplier = "Bristol-Myers Squibb"
  /\ ret.value[2].buyer = "Memorial Sloan Kettering"

\* C16: in every generated record the total value is the quantity times the
\* unit price.
C16_TotalValueIsQuantityTimesPrice ==
  pc = "done" =>
    \A j \in 1..Len(ret.value) :
      parseFloat(StripCurrency(ret.value[j].totalValue))
        = JsMul(ret.value[j].quantity,
                parseFloat(StripCurrency(ret.value[j].unitPrice)))

\* text contains part
Contains(text, part) ==
  \E j \in 1..(Len(text) - Len(part) + 1) : SubSeq(text, j, j + Len(part) - 1) = part

\* the ranked list a plan entry of the given type looks its rank up in
\* (empty for the types that look up nothing)
RankedListOf(type) ==
  CASE type \in {"importing_country_suppliers", "importing_country_companies"} ->
         processedData.geography.importingCountries
    [] type \in {"exporting_country_destinations", "exporting_country_companies"} ->
         processedData.geography.exportingCountries
    [] type = "supplier_detailed_analysis" -> processedData.suppliers.topSuppliers
    [] type = "importer_detailed_analysis" -> processedData.buyers.topBuyers
    [] OTHER -> <<>>

\* the positions of the entries whose rank lies beyond their list
BeyondBounds(defs) == {j \in 1..Len(defs) : defs[j].rank > Len(RankedListOf(defs[j].type))}

\* C17: when a call ends in a ranked section because an entry's rank lies
\* beyond its list, the error names the id of that slide and the missing
\* rank, and a call that returns rendered no entry whose rank is missing.
C17_RankErrorNamesSlideAndRank ==
  /\ outcome.kind = "returned" =>
       \A name \in {"importingCountries", "exportingCountries", "supplierBuyer"} :
         BeyondBounds(slideStructure[name].slides) = {}
  /\ (/\ outcome.kind = "slide_error"
      /\ SectionNames[section] \in {"importingCountries", "exportingCountries",
                                     "supplierBuyer"}) =>
       LET defs == slideStructure[SectionNames[section]].slides
           first == CHOOSE j \in BeyondBounds(defs) : \A l \in BeyondBounds(defs) : j <= l
       IN  /\ BeyondBounds(defs) # {}
           /\ Contains(outcome.message, Digits(defs[first].rank))
           /\ Contains(outcome.message, Digits(defs[first].id))

\* C18: when totalRecords is 0 or less, or a ranked list is empty, building
\* the processed data fails: the five blocks of the view are not all
\* produced.
C18_InvalidInputRejected ==
  LET EmptyList(list) == list = Arr(<<>>)
      invalid ==
        \/ productData.totalRecords.k = "number" /\ productData.totalRecords.n <= 0
        \/ EmptyList(productData.importingCountries)
        \/ EmptyList(productData.exportingCountries)
        \/ EmptyList(productData.topSuppliers)
        \/ EmptyList(productData.topBuyers)
  IN  invalid =>
        \E block \in {"product", "market", "geography", "suppliers", "buyers"} :
          processedData[block] = Unset

\* the types a section's generateSlides is written for: the case labels of
\* its switch, and for the section without a switch the types of its plan
RegisteredTypes(sectionName) ==
  IF sectionName = "shipmentRecords"
    THEN { slideStructure.shipmentRecords.slides[j].type :
             j \in 1..Len(slideStructure.shipmentRecords.slides) }
    ELSE SectionTypes(sectionName)

\* C19: in each of the six sections, generateSlides on an entry whose type the
\* section does not know fails with the unknown slide type error and yields
\* no slide.
C19_UnknownKindRejected ==
  (pc = "done" /\ args.slideDefinitions[1].type \notin RegisteredTypes(args.sectionName)) =>
    /\ ~ret.ok
    /\ ret.slides = <<>>
    /\ ret.error = "Unknown slide type: " \o args.slideDefinitions[1].type

\* C20: in a run of generatePresentation the HTML document and the summary
\* are written only after generateAllSlides returned; a run in which
\* generateAllSlides failed ends with success = false and no document.
C20_FailedRunWritesNoDocument ==
  /\ document # None => outcome.kind = "returned"
  /\ (pc = "exported" \/ (pc = "done" /\ ret.success)) =>
       outcome.kind = "returned" /\ document # None
  /\ (pc = "done" /\ outcome.kind # "returned") =>
       ~ret.success /\ ret.summary = Undefined /\ document = None

\* a run ended after generateAllSlides failed in a later section, with the
\* slides of the earlier sections in memory
C20_Witness ==
  /\ pc = "done"
  /\ outcome.kind = "slide_error"
  /\ slides # <<>>
  /\ ~ret.success
  /\ document = None

\* the sections of a report are the six sections, each with as many slides
\* generated as its range holds and the status Complete
AllSectionsComplete(report) ==
  /\ Len(report.sections) = 6
  /\ \A j \in 1..Len(report.sections) :
       LET entry == report.sections[j]
       IN  /\ entry.name = SectionNames[j]
           /\ entry.expected = entry.range[2] - entry.range[1] + 1
           /\ entry.generated = entry.expected
           /\ entry.status = "Complete"

\* C21: a progress report taken after generateAllSlides returned shows
\* totalSlides = 297, generatedSlides = 297 and six sections, each with
\* generated = expected = range[1] - range[0] + 1 and status Complete.
C21_ReportAfterSuccessIsComplete ==
  [][(ret' # ret /\ ret'.kind = "report" /\ outcome.kind = "returned") =>
       /\ ret'.totalSlides = 297
       /\ ret'.generatedSlides = 297
       /\ AllSectionsComplete(ret')]_vars

\* a report taken after a call that returned
C21_Witness ==
  /\ ret.kind = "report"
  /\ outcome.kind = "returned"
  /\ ret.generatedSlides = Len(slides)
  /\ ret.generatedSlides > 0

\* the types of the plan entries that look a rank up in each of the four lists
RankedTypes ==
  [importingCountries |-> {"importing_country_suppliers", "importing_country_companies"},
   exportingCountries |-> {"exporting_country_destinations", "exporting_country_companies"},
   topSuppliers |-> {"supplier_detailed_analysis"},
   topBuyers |-> {"importer_detailed_analysis"}]

\* the ranks the plan refers to in the list of the given name
RanksReferenced(list) ==
  UNION { { slideStructure[name].slides[j].rank :
              j \in { l \in 1..Len(slideStructure[name].slides) :
                        slideStructure[name].slides[l].type \in RankedTypes[list] } } :
          name \in {"importingCountries", "exportingCountries", "supplierBuyer"} }

\* C22: the largest rank the plan refers to is 10 in each of the four ranked
\* lists; a generateAllSlides call on an input whose four lists all have at
\* least 10 entries meets no failing rank lookup and returns with 297 slides,
\* and a call on an input with a list of fewer than 10 entries fails.
C22_TenEntriesSuffice ==
  /\ \A list \in DOMAIN RankedTypes :
       /\ 10 \in RanksReferenced(list)
       /\ \A rank \in RanksReferenced(list) : rank <= 10
  /\ outcome.kind # "none" =>
       IF \A list \in DOMAIN RankedTypes : Len(productData[list].v) >= 10
         THEN /\ outcome.kind = "returned"
              /\ Len(slides) = 297
              /\ \A name \in {"importingCountries", "exportingCountries", "supplierBuyer"} :
                   BeyondBounds(slideStructure[name].slides) = {}
         ELSE outcome.kind = "slide_error"

\* a call that returned on lists of exactly 10 entries
C22_Witness ==
  /\ outcome.kind = "returned"
  /\ \A list \in DOMAIN RankedTypes : Len(productData[list].v) = 10
  /\ Len(slides) = 297

\* the number of plan entries of the sections before the k-th
RECURSIVE SlidesBefore(_)
SlidesBefore(k) ==
  IF k <= 1 THEN 0 ELSE SlidesBefore(k - 1) + SectionCount(SectionNames[k - 1])

\* the slides in memory are those of the first k - 1 sections, in plan order
HoldsSectionsBefore(k) ==
  LET plan == PlanEntries
  IN  /\ Len(slides) = SlidesBefore(k)
      /\ \A j \in 1..Len(slides) : slides[j].id = plan[j].id

\* C23: generateAllSlides generates the sections one after the other in the
\* order foundation, importingCountries, exportingCountries, supplierBuyer,
\* pricing, shipmentRecords; a section starts only when the slides of all
\* earlier sections are there, and when a slide fails the call ends at once
\* with an error and generates nothing more.
C23_SingleLinearPass ==
  /\ [](SectionNames = << "foundation", "importingCountries", "exportingCountries",
                          "supplierBuyer", "pricing", "shipmentRecords" >>)
  /\ []((pc = "generateSlides" \/ outcome.kind = "slide_error") =>
          HoldsSectionsBefore(section))
  /\ [][/\ section' # section =>
             \/ section' = 1 /\ pc = "idle"
             \/ /\ section' = section + 1
                /\ Len(slides') = Len(slides) + SectionCount(SectionNames[section])
        /\ (outcome'.kind = "slide_error" /\ outcome.kind # "slide_error") =>
             /\ pc = "generateSlides"
             /\ pc' = "idle"
             /\ slides' = slides
             /\ section' = section
        /\ (pc = "generateSlides" /\ pc' = "validation") =>
             section = Len(SectionNames) /\ outcome' = outcome]_vars

\* a call that failed in the fourth section, the slides of the first three
\* sections in memory
C23_Witness ==
  /\ outcome.kind = "slide_error"
  /\ pc = "idle"
  /\ section = 4
  /\ Len(slides) = 39

\* the properties of a record that no outcome of Math.random() enters
FixedFields(record) ==
  [id |-> record.id, supplier |-> record.supplier,
   supplierCountry |-> record.supplierCountry, buyer |-> record.buyer,
   buyerCountry |-> record.buyerCountry, hsCode |-> record.hsCode]

\* C24: two constructions on the same input, whatever Math.random() yields in
\* each, build equally many records that agree record by record on id,
\* supplier, supplierCountry, buyer, buyerCountry and hsCode, and the two runs
\* of generateAllSlides end alike with the same (id, type, title) sequence.
C24_DeterministicUpToRandomFields ==
  pc = "done" =>
    /\ Len(ret.first.records) = Len(ret.second.records)
    /\ \A j \in 1..Len(ret.first.records) :
         FixedFields(ret.first.records[j]) = FixedFields(ret.second.records[j])
    /\ ret.first.ok = ret.second.ok
    /\ ret.first.error = ret.second.error
    /\ ret.first.slides = ret.second.slides

\* two runs under different outcomes that both returned 297 slides and whose
\* records differ
C24_Witness ==
  /\ pc = "done"
  /\ random # args
  /\ ret.first.ok /\ ret.second.ok
  /\ Len(ret.first.slides) = 297
  /\ ret.first.records # ret.second.records

\* C30: in every company table the rows are in descending order of the
\* estimated value and the Rank column reads 1, 2, ..., n from the first row
\* to the last.
C30_RankColumnFollowsRowOrder ==
  pc = "done" =>
    /\ \A j \in 1..(Len(ret.companies) - 1) :
         ~Less(ret.companies[j].rawValue, ret.companies[j + 1].rawValue)
    /\ \A j \in 1..Len(ret.rows) : ret.rows[j][1] = j

\* C25: whatever calls of generateAllSlides, generateProgressReport and
\* exportToHTML were made, and however they ended, the processed data (its
\* ranked lists in their order, with every property of every entry, and its
\* shipment block) and the slide structure are what the constructors built
\* from the input.
C25_DataModelUnchanged ==
  /\ processedData.product = processProductInfo(productData)
  /\ processedData.market = processMarketData(productData)
  /\ processedData.geography = processGeographicData(productData)
  /\ processedData.suppliers = processSupplierData(productData)
  /\ processedData.buyers = processBuyerData(productData)
  /\ processedData.shipments =
       [totalShipments |-> NumRecords,
        shipmentRecords |-> [ref |-> "shipmentRecords", length |-> NumRecords],
        shipmentsPerSlide |-> ShipmentsPerSlide,
        totalSlides |-> Ceil(NumRecords, ShipmentsPerSlide)]
  /\ slideStructure = defineSlideStructure

\* a second call of generateAllSlides returned, a report was taken and a
\* document exported
C25_Witness ==
  /\ calls >= 2
  /\ outcome.kind = "returned"
  /\ ret.kind = "report"
  /\ document.kind = "html"
  /\ Len(slides) = 297

\* C26: every call of generateAllSlides starts from an empty slide list and
\* a counter of 0, whatever the earlier calls left; while a call runs the
\* counter equals the number of slides in memory, no call ends with a
\* structure deviation, and after every call that returned, the first as well
\* as a later one, the orchestrator holds exactly 297 slides.
C26_RepeatedCallsHold297 ==
  /\ (pc = "generateSlides" /\ section = 1) => slides = <<>> /\ slideCount = 0
  /\ pc \in {"generateSlides", "validation"} =>
       slideCount = Len(slides) /\ Len(slides) <= 297
  /\ outcome.kind # "structure_deviation"
  /\ outcome.kind = "returned" => Len(slides) = 297 /\ slideCount = 297

\* a second call returned after a first one
C26_Witness ==
  /\ calls = 2
  /\ pc = "idle"
  /\ outcome.kind = "returned"
  /\ Len(slides) = 297
  /\ slides[297].id = 300

\* C27: every document exportToHTML writes, in whatever state of the
\* orchestrator it is called, holds all 297 slides.
C27_ExportedDocumentIsComplete ==
  document.kind = "html" =>
    /\ document.totalSlides = 297
    /\ Len(document.fragments) = 297

\* C28: in a page with at least one slide, once the script has run and after
\* any clicks and key presses, the current index lies in 0..totalSlides-1,
\* the slide at the current index is the only one marked active, and the
\* counter reads currentSlide+1 / totalSlides.
C28_OneActiveSlideInRange ==
  (pc = "ready" /\ document.totalSlides >= 1) =>
    /\ document.currentSlide \in 0..(document.totalSlides - 1)
    /\ document.active = {document.currentSlide}
    /\ document.slideCounter =
         Digits(document.currentSlide + 1) \o " / " \o Digits(document.totalSlides)

\* the last slide of a page of 297 slides reached by Next steps
C28_Witness ==
  /\ pc = "ready"
  /\ document.totalSlides = 297
  /\ document.currentSlide = 296
  /\ document.slideCounter = "297 / 297"
  /\ args = "click nextBtn"

\* C29: a Next click or ArrowRight press on the last slide, and a Previous
\* click or ArrowLeft press on the first slide, leave the current slide as it
\* is; every other Next or Previous moves by exactly one slide; and whenever
\* the script has run, Previous is disabled exactly on the first slide and
\* Next exactly on the last.
C29_NavigationNeverWraps ==
  /\ [](pc = "ready" =>
          /\ document.prevDisabled <=> (document.currentSlide = 0)
          /\ document.nextDisabled <=> (document.currentSlide = document.totalSlides - 1))
  /\ [][/\ args' \in {"click nextBtn", "keydown ArrowRight"} =>
            document'.currentSlide =
              IF document.currentSlide >= document.totalSlides - 1
                THEN document.currentSlide ELSE document.currentSlide + 1
        /\ args' \in {"click prevBtn", "keydown ArrowLeft"} =>
            document'.currentSlide =
              IF document.currentSlide <= 0
                THEN document.currentSlide ELSE document.currentSlide - 1
        /\ args' = "keydown Enter" => document' = document]_vars

\* ArrowRight pressed on the last slide of a page of several slides
C29_Witness ==
  /\ pc = "ready"
  /\ args = "keydown ArrowRight"
  /\ document.totalSlides > 1
  /\ document.currentSlide = document.totalSlides - 1
  /\ document.nextDisabled /\ ~document.prevDisabled

====
